---- MODULE Spec2Model ----
(***************************************************************************)
(* Classical-oracle compilation and cost estimation (oracles/function_ir,  *)
(* oracles/reversible_synth) and the sparse-matrix oracle model            *)
(* (block_encoding/sparse_matrix) of qc_exciton_LCC.                       *)
(*                                                                         *)
(* Python values are modelled as follows.                                  *)
(*   - a dict is the sequence of its <<key, value>> items in insertion     *)
(*     order (the order .items() iterates in);                             *)
(*   - a bit string is the sequence of its characters, 0 or 1, first       *)
(*     character first;                                                    *)
(*   - a call that may raise returns a record whose err field is "" on a   *)
(*     normal return and the exception's name otherwise;                   *)
(*   - a float that is a dyadic rational is a record [num, den] with den   *)
(*     a power of two (scaling by 2^k and division by 2^k are exact on     *)
(*     such floats);                                                       *)
(*   - an int is an integer of the model, except in the index codec, where *)
(*     sizes beyond the model's integers are written 2^top + low.          *)
(***************************************************************************)
EXTENDS Integers, Sequences, FiniteSets

VARIABLES
    form,       \* synthesis: the function form handed to compile_function_form
    config,     \* synthesis: the SynthConfig in effect (SynthConfig() when none is given)
    lowered,    \* synthesis: result of form.to_lookup_table(config)
    phase,      \* synthesis: start | compiled | costed | running | failed
    circ,       \* synthesis: result of compile_function_form
    raised,     \* synthesis: the exception compile_function_form raised, "" for none
    xin,        \* synthesis: the input the wires were initialised with
    wires,      \* synthesis: wire values while the circuit is executed
    pc,         \* synthesis: number of operations executed
    cost,       \* synthesis: result of circ.estimate_cost()
    ops,        \* estimator: operations of a hand-built ReversibleCircuit
    ret,        \* estimator: value returned by the last call
    fx,         \* fixed point: the arguments of _encode_signed_fixed
    enc,        \* fixed point: result of _encode_signed_fixed
    dec,        \* fixed point: result of _decode_signed_fixed on enc
    oargs,      \* access oracle: the arguments of from_function
    ocalls,     \* access oracle: the (index, slot) pairs the function was called on
    otable,     \* access oracle: the table built so far
    ostatus,    \* access oracle: building | built | failed
    oret,       \* access oracle: value returned by the last call on the oracle
    bargs,      \* bundle: the arguments of SparseOracleBundle.from_functions
    bundle,     \* bundle: result of SparseOracleBundle.from_functions
    be,         \* bundle: the SparseMatrixBlockEncoding built on the bundle
    heap,       \* bundle: the dicts query and adjoint_query have returned
    blog,       \* bundle: the calls of query and adjoint_query, with their outcome
    aret,       \* bundle: result of a direct call of amplitude_oracle.encode
    dlog,       \* bundle: the direct calls on the bundle's oracles, with their outcome
    uargs,      \* index codec: a domain size and an index
    uenc,       \* index codec: result of _encode_uint(index, _bits_for_range(size))
    udec,       \* index codec: result of _decode_uint on uenc
    sched,      \* schedule: the QuerySchedule's _calls list
    appended,   \* schedule: the calls handed to append, in call order
    srun        \* schedule: result of GeneralizedQueryAlgorithm.run(schedule)

vars == <<form, config, lowered, phase, circ, raised, xin, wires, pc, cost, ops, ret,
          fx, enc, dec, oargs, ocalls, otable, ostatus, oret,
          bargs, bundle, be, heap, blog, aret, dlog, uargs, uenc, udec, sched, appended, srun>>

synthVars == <<form, config, lowered, phase, circ, raised, xin, wires, pc, cost>>
costVars == <<ops, ret>>
fixedVars == <<fx, enc, dec>>
oracleVars == <<oargs, ocalls, otable, ostatus, oret>>
bundleVars == <<bargs, bundle, be, heap, blog, aret, dlog>>
uintVars == <<uargs, uenc, udec>>
schedVars == <<sched, appended, srun>>

(***************************************************************************)
(* Bounds of the model.                                                    *)
(***************************************************************************)
MaxQubits == 4      \* n_input_bits + n_output_bits of an enumerated form
MaxMinterms == 3    \* 1-bits in an enumerated lookup table
MaxOps == 3         \* operations of a hand-built circuit
MaxControls == 4    \* controls of a hand-built mcx
MaxTotalBits == 4   \* total_bits of a fixed-point encoding
MaxFracBits == 2    \* frac_bits of a fixed-point encoding
SubBits == 2        \* an encoded value is a multiple of 2^-SubBits of one LSB
MaxOverflow == 2    \* LSBs by which an encoded value may lie outside the range
MaxDim == 3         \* n_rows and n_cols of an access oracle
MaxNnz == 2         \* max_row_nnz / max_col_nnz of an access oracle
MaxBundleDim == 2   \* n_rows, n_cols and max_row_nnz of a bundle
MaxValueBits == 3   \* value_bits of a bundle's entry oracle
MaxTop == 50        \* leading bit position of a domain size of the index codec
MaxLow == 2         \* what a domain size or an index exceeds a power of two by
MaxCalls == 3       \* calls appended to a query schedule

(***************************************************************************)
(* Integer and sequence helpers.                                           *)
(***************************************************************************)
Pow2(n) == 2 ^ n

\* (x >> i) & 1
Bit(x, i) == (x \div Pow2(i)) % 2

Max(a, b) == IF a >= b THEN a ELSE b

Reverse(s) == [i \in 1..Len(s) |-> s[Len(s) + 1 - i]]

\* range(n) as a sequence: 0, 1, ..., n-1
Range(n) == [i \in 1..n |-> i - 1]

RECURSIVE Flatten(_)
Flatten(ss) == IF ss = <<>> THEN <<>> ELSE Head(ss) \o Flatten(Tail(ss))

RECURSIVE SumSeq(_)
SumSeq(s) == IF s = <<>> THEN 0 ELSE Head(s) + SumSeq(Tail(s))

(***************************************************************************)
(* Python dict as the sequence of its items.                               *)
(***************************************************************************)
DictKeys(d) == {d[i][1] : i \in 1..Len(d)}

DictHas(d, k) == k \in DictKeys(d)

DictGet(d, k) == d[CHOOSE i \in 1..Len(d) : d[i][1] = k][2]

\* d[k] = v: overwrite in place when the key is present, append otherwise
DictSet(d, k, v) ==
    IF DictHas(d, k)
    THEN [i \in 1..Len(d) |-> IF d[i][1] = k THEN <<k, v>> ELSE d[i]]
    ELSE Append(d, <<k, v>>)

(***************************************************************************)
(* oracles/function_ir.py.  A name is the sequence of the pieces it is     *)
(* concatenated from.                                                      *)
(***************************************************************************)
SynthConfig == [max_truth_table_input_bits |-> 12,
                allow_callable_enumeration |-> TRUE]

LookupTableForm(n, m, table, name) ==
    [kind |-> "lut", n_input_bits |-> n, n_output_bits |-> m, table |-> table,
     matrix |-> <<>>, offset_bits |-> <<>>, fn |-> <<>>, name |-> name]

AffineXorForm(n, m, matrix, offset_bits, name) ==
    [kind |-> "affine", n_input_bits |-> n, n_output_bits |-> m, table |-> <<>>,
     matrix |-> matrix, offset_bits |-> offset_bits, fn |-> <<>>, name |-> name]

\* fn is the sequence of the callable's results on 0, 1, ...: fn[x+1] is
\* [err |-> "", val |-> y] when fn(x) returns y, [err |-> e, val |-> 0] when
\* it raises e.
CompilableFunctionForm(n, m, fn, name) ==
    [kind |-> "callable", n_input_bits |-> n, n_output_bits |-> m, table |-> <<>>,
     matrix |-> <<>>, offset_bits |-> <<>>, fn |-> fn, name |-> name]

\* The keys are not checked.
Mutant_validate_NoKeyCheck(f) ==
    /\ Len(f.table) = Pow2(f.n_input_bits)
    /\ \A i \in 1..Len(f.table) :
          f.table[i][2] >= 0 /\ f.table[i][2] < Pow2(f.n_output_bits)

\* LookupTableForm.validate: TRUE when it returns, FALSE when it raises
LookupTableForm_validate(f) ==
    /\ Len(f.table) = Pow2(f.n_input_bits)
    /\ \A i \in 1..Len(f.table) :
          /\ f.table[i][1] >= 0 /\ f.table[i][1] < Pow2(f.n_input_bits)
          /\ f.table[i][2] >= 0 /\ f.table[i][2] < Pow2(f.n_output_bits)

\* AffineXorForm.validate: TRUE when it returns, FALSE when it raises
AffineXorForm_validate(f) ==
    /\ Len(f.matrix) = f.n_output_bits
    /\ Len(f.offset_bits) = f.n_output_bits
    /\ \A j \in 1..Len(f.matrix) :
          /\ Len(f.matrix[j]) = f.n_input_bits
          /\ \A i \in 1..Len(f.matrix[j]) : f.matrix[j][i] \in {0, 1}
    /\ \A j \in 1..Len(f.offset_bits) : f.offset_bits[j] \in {0, 1}

\* bit_val after the inner loop over the first k coefficients of a row
RECURSIVE AffineBit(_, _, _, _)
AffineBit(row, offset, x, k) ==
    IF k = 0 THEN offset
    ELSE LET prev == AffineBit(row, offset, x, k - 1)
         IN  IF row[k] = 1 THEN (prev + Bit(x, k - 1)) % 2 ELSE prev

\* AffineXorForm.evaluate
AffineXorForm_evaluate(f, x) ==
    IF x < 0 \/ x >= Pow2(f.n_input_bits)
    THEN [err |-> "ValueError", val |-> 0]
    ELSE [err |-> "",
          val |-> SumSeq([j \in 1..Len(f.matrix) |->
                     IF AffineBit(f.matrix[j], f.offset_bits[j], x, Len(f.matrix[j])) # 0
                     THEN Pow2(j - 1) ELSE 0])]

\* The table holds A x, without the offset.
Mutant_affine_to_lookup_table(f) ==
    LookupTableForm(f.n_input_bits, f.n_output_bits,
                    [i \in 1..Pow2(f.n_input_bits) |->
                        <<i - 1, AffineXorForm_evaluate(
                                     [f EXCEPT !.offset_bits = [j \in 1..Len(@) |-> 0]],
                                     i - 1).val>>],
                    f.name \o <<"_as_lut">>)

\* AffineXorForm.to_lookup_table
AffineXorForm_to_lookup_table(f) ==
    LookupTableForm(f.n_input_bits, f.n_output_bits,
                    [i \in 1..Pow2(f.n_input_bits) |->
                        <<i - 1, AffineXorForm_evaluate(f, i - 1).val>>],
                    f.name \o <<"_as_lut">>)

\* The enumeration loop of CompilableFunctionForm.to_lookup_table from x on,
\* with the table built so far and the inputs fn has been called on so far.
RECURSIVE EnumerateFrom(_, _, _, _)
EnumerateFrom(f, x, table, calls) ==
    IF x >= Pow2(f.n_input_bits)
    THEN [err |-> "",
          lut |-> LookupTableForm(f.n_input_bits, f.n_output_bits, table,
                                  f.name \o <<"_enumerated">>),
          calls |-> calls]
    ELSE LET r == f.fn[x + 1] IN
         IF r.err # "" THEN [err |-> r.err, lut |-> <<>>, calls |-> Append(calls, x)]
         ELSE IF r.val < 0 \/ r.val >= Pow2(f.n_output_bits)
         THEN [err |-> "ValueError", lut |-> <<>>, calls |-> Append(calls, x)]
         ELSE EnumerateFrom(f, x + 1, DictSet(table, x, r.val), Append(calls, x))

\* The width limit of the configuration is ignored.
Mutant_to_lookup_table_NoLimit(f, cfg) ==
    IF ~cfg.allow_callable_enumeration
    THEN [err |-> "ValueError", lut |-> <<>>, calls |-> <<>>]
    ELSE EnumerateFrom(f, 0, <<>>, <<>>)

\* CompilableFunctionForm.to_lookup_table; calls is the sequence of inputs fn
\* was called on
CompilableFunctionForm_to_lookup_table(f, cfg) ==
    IF ~cfg.allow_callable_enumeration
    THEN [err |-> "ValueError", lut |-> <<>>, calls |-> <<>>]
    ELSE IF f.n_input_bits > cfg.max_truth_table_input_bits
    THEN [err |-> "ValueError", lut |-> <<>>, calls |-> <<>>]
    ELSE EnumerateFrom(f, 0, <<>>, <<>>)

(***************************************************************************)
(* oracles/reversible_synth.py                                             *)
(***************************************************************************)
ReversibleOp(gate, controls, control_values, target) ==
    [gate |-> gate, controls |-> controls, control_values |-> control_values,
     target |-> target]

GateCost(x, cnot, toffoli, t, t_depth, ancilla) ==
    [x_count |-> x, cnot_count |-> cnot, toffoli_count |-> toffoli, t_count |-> t,
     t_depth_estimate |-> t_depth, ancilla_peak_estimate |-> ancilla]

\* The ancilla peak summed like the other counters.
Mutant_GateCost_add(a, b) ==
    [x_count |-> a.x_count + b.x_count,
     cnot_count |-> a.cnot_count + b.cnot_count,
     toffoli_count |-> a.toffoli_count + b.toffoli_count,
     t_count |-> a.t_count + b.t_count,
     t_depth_estimate |-> a.t_depth_estimate + b.t_depth_estimate,
     ancilla_peak_estimate |-> a.ancilla_peak_estimate + b.ancilla_peak_estimate]

\* The ancilla peak of the right operand is taken.
Mutant_GateCost_add_KeepRight(a, b) ==
    [x_count |-> a.x_count + b.x_count,
     cnot_count |-> a.cnot_count + b.cnot_count,
     toffoli_count |-> a.toffoli_count + b.toffoli_count,
     t_count |-> a.t_count + b.t_count,
     t_depth_estimate |-> a.t_depth_estimate + b.t_depth_estimate,
     ancilla_peak_estimate |-> b.ancilla_peak_estimate]

\* GateCost.__add__
GateCost_add(a, b) ==
    GateCost(a.x_count + b.x_count,
             a.cnot_count + b.cnot_count,
             a.toffoli_count + b.toffoli_count,
             a.t_count + b.t_count,
             a.t_depth_estimate + b.t_depth_estimate,
             Max(a.ancilla_peak_estimate, b.ancilla_peak_estimate))

ReversibleCircuit(n, m, operations, source, method) ==
    [n_input_bits |-> n, n_output_bits |-> m, operations |-> operations,
     metadata |-> [source |-> source, method |-> method]]

NoCircuit == ReversibleCircuit(0, 0, <<>>, <<>>, "")

n_qubits(c) == c.n_input_bits + c.n_output_bits

output_offset(c) == c.n_input_bits

\* A ladder mis-counted as one Toffoli per extra control.
Mutant_estimate_mcx_toffoli(n_controls) ==
    IF n_controls <= 1 THEN 0 ELSE n_controls - 1

_estimate_mcx_toffoli(n_controls) ==
    IF n_controls <= 1 THEN 0
    ELSE IF n_controls = 2 THEN 1
    ELSE 2 * n_controls - 3

\* The loop of estimate_cost over the operations that remain, with the total so
\* far; an unsupported gate raises and no cost is returned.
RECURSIVE estimate_cost_from(_, _)
estimate_cost_from(rest, total) ==
    IF rest = <<>> THEN [err |-> "", cost |-> total]
    ELSE LET op == Head(rest) IN
         IF op.gate = "x"
         THEN estimate_cost_from(Tail(rest), GateCost_add(total, GateCost(1, 0, 0, 0, 0, 0)))
         ELSE IF op.gate = "cx"
         THEN estimate_cost_from(Tail(rest), GateCost_add(total, GateCost(0, 1, 0, 0, 0, 0)))
         ELSE IF op.gate = "mcx"
         THEN LET k == Len(op.controls)
                  toffoli == _estimate_mcx_toffoli(k)
              IN  estimate_cost_from(Tail(rest),
                      GateCost_add(total,
                          GateCost(0, 0, toffoli, 7 * toffoli, Max(1, 3 * toffoli),
                                   Max(0, k - 2))))
         ELSE [err |-> "ValueError", cost |-> GateCost(0, 0, 0, 0, 0, 0)]

\* ReversibleCircuit.estimate_cost
estimate_cost(operations) == estimate_cost_from(operations, GateCost(0, 0, 0, 0, 0, 0))

\* The flipped wires are not restored after the controlling gate.
Mutant_MintermOps(x, n_inputs, target) ==
    LET controls == Range(n_inputs)
        zero_control_wires == SelectSeq(controls, LAMBDA w : Bit(x, w) = 0)
        flips == [i \in 1..Len(zero_control_wires) |->
                     ReversibleOp("x", <<>>, <<>>, zero_control_wires[i])]
        gate == IF Len(controls) = 0 THEN ReversibleOp("x", <<>>, <<>>, target)
                ELSE IF Len(controls) = 1
                THEN ReversibleOp("cx", <<controls[1]>>, <<1>>, target)
                ELSE ReversibleOp("mcx", controls, [i \in 1..n_inputs |-> 1], target)
    IN  flips \o <<gate>>

\* The zero bits of the minterm become negative controls of the gate.
Mutant_MintermOps_NegativeControls(x, n_inputs, target) ==
    LET controls == Range(n_inputs)
    IN  <<IF Len(controls) = 0 THEN ReversibleOp("x", <<>>, <<>>, target)
          ELSE ReversibleOp("mcx", controls, [i \in 1..n_inputs |-> Bit(x, i - 1)], target)>>

\* The flipped wires are restored in the order they were flipped in.
Mutant_MintermOps_RestoreInOrder(x, n_inputs, target) ==
    LET controls == Range(n_inputs)
        zero_control_wires == SelectSeq(controls, LAMBDA w : Bit(x, w) = 0)
        flips == [i \in 1..Len(zero_control_wires) |->
                     ReversibleOp("x", <<>>, <<>>, zero_control_wires[i])]
        gate == IF Len(controls) = 0 THEN ReversibleOp("x", <<>>, <<>>, target)
                ELSE IF Len(controls) = 1
                THEN ReversibleOp("cx", <<controls[1]>>, <<1>>, target)
                ELSE ReversibleOp("mcx", controls, [i \in 1..n_inputs |-> 1], target)
    IN  flips \o <<gate>> \o flips

\* The operations compile_lookup_table appends for one minterm x of one target
MintermOps(x, n_inputs, target) ==
    LET controls == Range(n_inputs)
        control_values == [i \in 1..n_inputs |-> 1]
        zero_control_wires == SelectSeq(controls, LAMBDA w : Bit(x, w) = 0)
        flips == [i \in 1..Len(zero_control_wires) |->
                     ReversibleOp("x", <<>>, <<>>, zero_control_wires[i])]
        gate == IF Len(controls) = 0 THEN ReversibleOp("x", <<>>, <<>>, target)
                ELSE IF Len(controls) = 1
                THEN ReversibleOp("cx", <<controls[1]>>, <<1>>, target)
                ELSE ReversibleOp("mcx", controls, control_values, target)
    IN  flips \o <<gate>> \o Reverse(flips)

\* minterms of one output bit: the keys, in items() order, whose value has the bit
Minterms(table, out_bit) ==
    LET hit == SelectSeq(table, LAMBDA kv : Bit(kv[2], out_bit) = 1)
    IN  [i \in 1..Len(hit) |-> hit[i][1]]

\* compile_lookup_table
compile_lookup_table(f) ==
    IF ~LookupTableForm_validate(f) THEN [err |-> "ValueError", circ |-> NoCircuit]
    ELSE LET n_inputs == f.n_input_bits
             perBit == [j \in 1..f.n_output_bits |->
                          LET target == n_inputs + (j - 1)
                              minterms == Minterms(f.table, j - 1)
                          IN  Flatten([i \in 1..Len(minterms) |->
                                          MintermOps(minterms[i], n_inputs, target)])]
         IN  [err |-> "",
              circ |-> ReversibleCircuit(f.n_input_bits, f.n_output_bits,
                                         Flatten(perBit), f.name, "sum_of_minterms")]

\* The offset bit is ignored.
Mutant_AffineRowOps_NoOffset(row, offset_bit, target) ==
    LET in_bits == SelectSeq(Range(Len(row)), LAMBDA i : row[i + 1] = 1)
    IN  [k \in 1..Len(in_bits) |-> ReversibleOp("cx", <<in_bits[k]>>, <<1>>, target)]

\* One gate controlled on all selected input bits instead of one CX per bit.
Mutant_AffineRowOps_Mcx(row, offset_bit, target) ==
    LET in_bits == SelectSeq(Range(Len(row)), LAMBDA i : row[i + 1] = 1)
    IN  (IF offset_bit = 1 THEN <<ReversibleOp("x", <<>>, <<>>, target)>> ELSE <<>>)
        \o (IF in_bits = <<>> THEN <<>>
            ELSE <<ReversibleOp("mcx", in_bits, [k \in 1..Len(in_bits) |-> 1], target)>>)

\* The operations compile_affine_xor appends for one output bit
AffineRowOps(row, offset_bit, target) ==
    LET in_bits == SelectSeq(Range(Len(row)), LAMBDA i : row[i + 1] = 1)
        cxs == [k \in 1..Len(in_bits) |->
                   ReversibleOp("cx", <<in_bits[k]>>, <<1>>, target)]
    IN  (IF offset_bit = 1 THEN <<ReversibleOp("x", <<>>, <<>>, target)>> ELSE <<>>) \o cxs

\* The affine form is lowered to its lookup table and compiled as one.
Mutant_compile_affine_xor_ViaLut(f) ==
    IF ~AffineXorForm_validate(f) THEN [err |-> "ValueError", circ |-> NoCircuit]
    ELSE compile_lookup_table(AffineXorForm_to_lookup_table(f))

\* compile_affine_xor
compile_affine_xor(f) ==
    IF ~AffineXorForm_validate(f) THEN [err |-> "ValueError", circ |-> NoCircuit]
    ELSE [err |-> "",
          circ |-> ReversibleCircuit(f.n_input_bits, f.n_output_bits,
                      Flatten([j \in 1..Len(f.matrix) |->
                                  AffineRowOps(f.matrix[j], f.offset_bits[j],
                                               f.n_input_bits + (j - 1))]),
                      f.name, "affine_xor")]

\* compile_function_form
compile_function_form(f, cfg) ==
    IF f.kind = "affine" THEN compile_affine_xor(f)
    ELSE IF f.kind = "lut" THEN compile_lookup_table(f)
    ELSE IF f.kind = "callable"
    THEN LET lut == CompilableFunctionForm_to_lookup_table(f, cfg) IN
         IF lut.err # "" THEN [err |-> lut.err, circ |-> NoCircuit]
         ELSE compile_lookup_table(lut.lut)
    ELSE [err |-> "TypeError", circ |-> NoCircuit]

(***************************************************************************)
(* Execution of a ReversibleOp on the wires: x flips its target, cx and    *)
(* mcx flip their target when every control wire holds its control value.  *)
(* w is the sequence of wire values, wire k at w[k+1].                     *)
(***************************************************************************)
ApplyOp(op, w) ==
    LET fires == \A i \in 1..Len(op.controls) :
                     w[op.controls[i] + 1] = op.control_values[i]
    IN  IF op.gate = "x" \/ fires
        THEN [w EXCEPT ![op.target + 1] = 1 - @]
        ELSE w

\* wires [0, n) hold x, bit i on wire i; wires [n, n+m) hold 0
InitialWires(n, m, x) == [k \in 1..(n + m) |-> IF k <= n THEN Bit(x, k - 1) ELSE 0]

\* the packed integer held by wires [lo, lo+len)
Register(w, lo, len) == SumSeq([i \in 1..len |-> w[lo + i] * Pow2(i - 1)])

\* the wires after all of operations have acted, in order, on w
RECURSIVE RunCircuit(_, _)
RunCircuit(operations, w) ==
    IF operations = <<>> THEN w
    ELSE RunCircuit(Tail(operations), ApplyOp(Head(operations), w))

(***************************************************************************)
(* block_encoding/sparse_matrix.py: bit widths and codecs.                 *)
(***************************************************************************)
\* ceil(log2(size)) for size > 1: the least b with 2^b >= size
CeilLog2(size) == CHOOSE b \in 1..size : Pow2(b) >= size /\ Pow2(b - 1) < size

\* floor(log2(size)) where the ceiling is meant.
Mutant_bits_for_range(size) ==
    IF size <= 1 THEN 1 ELSE CHOOSE b \in 0..size : Pow2(b) <= size /\ Pow2(b + 1) > size

_bits_for_range(size) == IF size <= 1 THEN 1 ELSE CeilLog2(size)

\* the binary digits of value >= 0, most significant first, minimal length
RECURSIVE BinDigits(_)
BinDigits(value) ==
    IF value < 2 THEN <<value>> ELSE Append(BinDigits(value \div 2), value % 2)

\* format(value, "0{width}b") for value >= 0: zero-padded to width on the left
FormatBin(value, width) ==
    LET digits == BinDigits(value)
    IN  [i \in 1..(width - Len(digits)) |-> 0] \o digits

\* int(bits, 2)
RECURSIVE ParseBin(_)
ParseBin(bits) ==
    IF bits = <<>> THEN 0
    ELSE 2 * ParseBin(SubSeq(bits, 1, Len(bits) - 1)) + bits[Len(bits)]

_encode_uint(value, n_bits) ==
    IF value < 0 \/ value >= Pow2(n_bits)
    THEN [err |-> "ValueError", bits |-> <<>>]
    ELSE [err |-> "", bits |-> FormatBin(value, n_bits)]

_decode_uint(bits) == ParseBin(bits)

(***************************************************************************)
(* The same three functions on Python ints of any size.  A positive int    *)
(* is the record [top, low] standing for 2^top + low with 0 <= low <       *)
(* 2^top; zero is BigZero.  log2 works on doubles: a double near k >= 1    *)
(* has 52 fraction bits below its leading bit floor(log2 k), so the one    *)
(* nearest to log2(2^top + low) = top + log2(1 + low/2^top) is top itself  *)
(* when low/(2^top * ln 2) is below half a unit in the last place of top.  *)
(* The int is converted to a double exactly for top <= 52.                 *)
(***************************************************************************)
Big(top, low) == [top |-> top, low |-> low]

BigZero == Big(-1, 0)

BigLess(a, b) == a.top < b.top \/ (a.top = b.top /\ a.low < b.low)

\* floor(log2(k)) for k >= 1
FloorLog2(k) == Len(BinDigits(k)) - 1

\* log2(float(2^top + low)) == float(top), with ln 2 = 0.6931...
Log2IsWhole(size) ==
    \/ size.low = 0
    \/ /\ size.top >= 1
       /\ size.top + FloorLog2(size.top) >= 53
       /\ size.low * 10000 < 6931 * Pow2(size.top + FloorLog2(size.top) - 53)

Big_bits_for_range(size) ==
    IF BigLess(size, Big(1, 0)) THEN 1
    ELSE IF Log2IsWhole(size) THEN size.top ELSE size.top + 1

\* (low >> pos) & 1 without forming 2^pos
RECURSIVE LowBit(_, _)
LowBit(low, pos) == IF low = 0 THEN 0 ELSE IF pos = 0 THEN low % 2 ELSE LowBit(low \div 2, pos - 1)

BigBit(value, pos) ==
    IF pos = value.top THEN 1 ELSE IF pos > value.top THEN 0 ELSE LowBit(value.low, pos)

\* value >= 0 always; value >= (1 << n_bits) iff its leading bit is at n_bits or above
Big_encode_uint(value, n_bits) ==
    IF value.top >= n_bits
    THEN [err |-> "ValueError", bits |-> <<>>]
    ELSE [err |-> "", bits |-> [p \in 1..n_bits |-> BigBit(value, n_bits - p)]]

Big_decode_uint(bits) ==
    LET ones == {p \in 1..Len(bits) : bits[p] = 1}
    IN  IF ones = {} THEN BigZero
        ELSE LET first == CHOOSE p \in ones : \A q \in ones : p <= q
             IN  Big(Len(bits) - first, ParseBin(SubSeq(bits, first + 1, Len(bits))))

\* Rounding towards minus infinity instead of to nearest.
Mutant_Round(num, den) == num \div den

\* round(num / den) for den > 0: to nearest, a tie to the even neighbour
Round(num, den) ==
    LET lo == num \div den
        twice == 2 * (num % den)
    IN  IF twice < den THEN lo
        ELSE IF twice > den THEN lo + 1
        ELSE IF lo % 2 = 0 THEN lo ELSE lo + 1

\* A sign bit followed by the magnitude instead of the two's complement.
Mutant_encode_SignMagnitude(value, total_bits, frac_bits) ==
    LET scaled == Round(value.num * Pow2(frac_bits), value.den)
    IN  IF scaled < -Pow2(total_bits - 1) \/ scaled > Pow2(total_bits - 1) - 1
        THEN [err |-> "ValueError", bits |-> <<>>]
        ELSE [err |-> "",
              bits |-> IF scaled < 0 THEN <<1>> \o FormatBin(-scaled, total_bits - 1)
                       ELSE FormatBin(scaled, total_bits)]

_encode_signed_fixed(value, total_bits, frac_bits) ==
    LET scale == Pow2(frac_bits)
        scaled == Round(value.num * scale, value.den)
        min_int == -Pow2(total_bits - 1)
        max_int == Pow2(total_bits - 1) - 1
    IN  IF scaled < min_int \/ scaled > max_int
        THEN [err |-> "ValueError", bits |-> <<>>]
        ELSE [err |-> "",
              bits |-> FormatBin(IF scaled < 0 THEN Pow2(total_bits) + scaled ELSE scaled,
                                 total_bits)]

_decode_signed_fixed(bits, frac_bits) ==
    LET raw == ParseBin(bits)
        total_bits == Len(bits)
    IN  [num |-> IF bits[1] = 1 THEN raw - Pow2(total_bits) ELSE raw,
         den |-> Pow2(frac_bits)]

(***************************************************************************)
(* block_encoding/sparse_matrix.py: RowAccessOracle and ColAccessOracle.   *)
(* The two classes are the same code with the roles of rows and columns    *)
(* exchanged; a.kind says which one a is.                                  *)
(***************************************************************************)
\* the size of the index domain: n_rows of a row oracle, n_cols of a column oracle
OracleDim(a) == IF a.kind = "row" THEN a.n_rows ELSE a.n_cols

\* the bound on the stored targets: n_cols of a row oracle, n_rows of a column oracle
OracleBound(a) == IF a.kind = "row" THEN a.n_cols ELSE a.n_rows

OracleName(a) == IF a.kind = "row" THEN <<"row_access_oracle">> ELSE <<"col_access_oracle">>

\* The upper bound taken as inclusive.
Mutant_TargetInBound(v, bound) == ~(v < 0 \/ v > bound)

\* the negation of from_function's test "col < 0 or col >= n_cols"
TargetInBound(v, bound) == ~(v < 0 \/ v >= bound)

\* The loops of from_function: TRUE when no (index, l_pos) is left after the
\* calls made so far.
LoopDone(a, calls) ==
    \/ OracleDim(a) <= 0
    \/ a.max_nnz <= 0
    \/ /\ calls # <<>>
       /\ calls[Len(calls)][1] + 1 >= OracleDim(a)
       /\ calls[Len(calls)][2] + 1 >= a.max_nnz

\* The loops of from_function: the (index, l_pos) of the next iteration.
LoopNext(a, calls) ==
    IF calls = <<>> THEN <<0, 0>>
    ELSE LET last == calls[Len(calls)] IN
         IF last[2] + 1 < a.max_nnz THEN <<last[1], last[2] + 1>>
         ELSE <<last[1] + 1, 0>>

\* The stored target is returned one too high.
Mutant_lookup_OffByOne(table, index, l_pos) ==
    IF DictHas(table, <<index, l_pos>>)
    THEN [err |-> "", val |-> DictGet(table, <<index, l_pos>>) + 1]
    ELSE [err |-> "KeyError", val |-> 0]

\* lookup
lookup(table, index, l_pos) ==
    IF DictHas(table, <<index, l_pos>>)
    THEN [err |-> "", val |-> DictGet(table, <<index, l_pos>>)]
    ELSE [err |-> "KeyError", val |-> 0]

\* The loop of compile_truth_table over the items that remain.
RECURSIVE compile_truth_table_from(_, _, _, _, _)
compile_truth_table_from(items, compiled, index_bits, l_bits, out_bits) ==
    IF items = <<>> THEN [err |-> "", table |-> compiled]
    ELSE LET item == Head(items)
             k1 == _encode_uint(item[1][1], index_bits)
             k2 == _encode_uint(item[1][2], l_bits)
             v == _encode_uint(item[2], out_bits)
         IN  IF k1.err # "" \/ k2.err # "" \/ v.err # ""
             THEN [err |-> "ValueError", table |-> <<>>]
             ELSE compile_truth_table_from(Tail(items),
                      DictSet(compiled, k1.bits \o k2.bits, v.bits),
                      index_bits, l_bits, out_bits)

\* compile_truth_table
compile_truth_table(a, table) ==
    compile_truth_table_from(table, <<>>, _bits_for_range(OracleDim(a)),
                             _bits_for_range(a.max_nnz), _bits_for_range(OracleBound(a)))

\* packed_fn of compile_reversible_circuit
packed_fn(table, l_bits, x) ==
    LET l_mask == Pow2(l_bits) - 1
        l_pos == x % (l_mask + 1)
        index == x \div Pow2(l_bits)
    IN  lookup(table, index, l_pos)

\* compile_reversible_circuit
compile_reversible_circuit(a, table) ==
    LET index_bits == _bits_for_range(OracleDim(a))
        l_bits == _bits_for_range(a.max_nnz)
        in_bits == index_bits + l_bits
        out_bits == _bits_for_range(OracleBound(a))
        f == CompilableFunctionForm(in_bits, out_bits,
                 [i \in 1..Pow2(in_bits) |-> packed_fn(table, l_bits, i - 1)],
                 OracleName(a))
    IN  compile_function_form(f, SynthConfig)

\* The generating function with parameter record fn, called on (index, l_pos).
CallFn(fn, index, l_pos) ==
    ((fn.a * index + fn.b * l_pos + fn.c) % fn.modulus) - fn.shift

\* The loops of from_function from the iteration after calls on, with the
\* table built so far.
RECURSIVE from_function_from(_, _, _)
from_function_from(a, calls, table) ==
    IF LoopDone(a, calls) THEN [err |-> "", table |-> table]
    ELSE LET at == LoopNext(a, calls)
             target == CallFn(a.fn, at[1], at[2])
         IN  IF TargetInBound(target, OracleBound(a))
             THEN from_function_from(a, Append(calls, at), DictSet(table, at, target))
             ELSE [err |-> "ValueError", table |-> <<>>]

\* RowAccessOracle.from_function / ColAccessOracle.from_function
from_function(a) == from_function_from(a, <<>>, <<>>)

(***************************************************************************)
(* block_encoding/sparse_matrix.py: EntryBinaryOracle,                     *)
(* FullDataLoadingAmplitudeOracle, SparseOracleBundle and                  *)
(* SparseMatrixBlockEncoding.  An entry function is the record             *)
(* [diag, off] of the values it returns on and off the diagonal.  A dict   *)
(* with fixed string keys, and an object, is a record of its fields; the   *)
(* dicts query returns live in a heap, a sequence, and are referred to by  *)
(* their index in it.                                                      *)
(***************************************************************************)
EntryBinaryOracle(n_rows, n_cols, value_bits, frac_bits, table) ==
    [n_rows |-> n_rows, n_cols |-> n_cols, value_bits |-> value_bits,
     frac_bits |-> frac_bits, table |-> table]

NoEntryOracle == EntryBinaryOracle(0, 0, 0, 0, <<>>)

\* The loops of EntryBinaryOracle.from_function from iteration k on, k counting
\* the (row, col) pairs in loop order, with the table built so far.
RECURSIVE EntryLoop(_, _, _, _, _, _, _)
EntryLoop(n_rows, n_cols, value_bits, frac_bits, entry_fn, k, table) ==
    IF n_cols <= 0 \/ k >= n_rows * n_cols
    THEN [err |-> "",
          oracle |-> EntryBinaryOracle(n_rows, n_cols, value_bits, frac_bits, table)]
    ELSE LET row == k \div n_cols
             col == k % n_cols
             value == IF row = col THEN entry_fn.diag ELSE entry_fn.off
             bits == _encode_signed_fixed(value, value_bits, frac_bits)
         IN  IF bits.err # "" THEN [err |-> bits.err, oracle |-> NoEntryOracle]
             ELSE EntryLoop(n_rows, n_cols, value_bits, frac_bits, entry_fn, k + 1,
                            DictSet(table, <<row, col>>, bits.bits))

\* EntryBinaryOracle.from_function
EntryBinaryOracle_from_function(n_rows, n_cols, value_bits, frac_bits, entry_fn) ==
    EntryLoop(n_rows, n_cols, value_bits, frac_bits, entry_fn, 0, <<>>)

\* EntryBinaryOracle.lookup_bits
lookup_bits(e, row, col) ==
    IF DictHas(e.table, <<row, col>>)
    THEN [err |-> "", bits |-> DictGet(e.table, <<row, col>>)]
    ELSE [err |-> "KeyError", bits |-> <<>>]

\* EntryBinaryOracle.lookup_value
lookup_value(e, row, col) ==
    LET bits == lookup_bits(e, row, col) IN
    IF bits.err # "" THEN [err |-> bits.err, val |-> [num |-> 0, den |-> 1]]
    ELSE [err |-> "", val |-> _decode_signed_fixed(bits.bits, e.frac_bits)]

\* The loop of EntryBinaryOracle.compile_truth_table over the items that remain.
RECURSIVE EntryTruthTableFrom(_, _, _, _)
EntryTruthTableFrom(items, compiled, row_bits, col_bits) ==
    IF items = <<>> THEN [err |-> "", table |-> compiled]
    ELSE LET item == Head(items)
             k1 == _encode_uint(item[1][1], row_bits)
             k2 == _encode_uint(item[1][2], col_bits)
         IN  IF k1.err # "" \/ k2.err # ""
             THEN [err |-> "ValueError", table |-> <<>>]
             ELSE EntryTruthTableFrom(Tail(items), DictSet(compiled, k1.bits \o k2.bits, item[2]),
                                      row_bits, col_bits)

\* EntryBinaryOracle.compile_truth_table
EntryBinaryOracle_compile_truth_table(e) ==
    EntryTruthTableFrom(e.table, <<>>, _bits_for_range(e.n_rows), _bits_for_range(e.n_cols))

\* theta is kept as the argument t of 2*asin(sqrt(t)); phase is "0" or "pi"
AmplitudeEncoding(value, normalized_abs, theta, sign_phase) ==
    [value |-> value, normalized_abs |-> normalized_abs, theta |-> theta,
     phase |-> sign_phase]

NoEncoding ==
    AmplitudeEncoding([num |-> 0, den |-> 1], [num |-> 0, den |-> 1],
                      [two_asin_sqrt |-> [num |-> 0, den |-> 1]], "")

FullDataLoadingAmplitudeOracle(entry_oracle, alpha) ==
    [entry_oracle |-> entry_oracle, alpha |-> alpha]

\* The quotient is not capped at 1.
Mutant_encode_NoClamp(amp, row, col) ==
    IF amp.alpha.num <= 0 THEN [err |-> "ValueError", enc |-> NoEncoding]
    ELSE LET v == lookup_value(amp.entry_oracle, row, col) IN
         IF v.err # "" THEN [err |-> v.err, enc |-> NoEncoding]
         ELSE LET quotient == [num |-> (IF v.val.num < 0 THEN -v.val.num ELSE v.val.num)
                                          * amp.alpha.den,
                               den |-> v.val.den * amp.alpha.num]
              IN  [err |-> "",
                   enc |-> AmplitudeEncoding(v.val, quotient,
                               [two_asin_sqrt |-> quotient],
                               IF v.val.num >= 0 THEN "0" ELSE "pi")]

\* FullDataLoadingAmplitudeOracle.encode; alpha and the value are dyadic, so
\* abs(value) / alpha is the exact quotient, kept as an unreduced fraction
encode(amp, row, col) ==
    IF amp.alpha.num <= 0 THEN [err |-> "ValueError", enc |-> NoEncoding]
    ELSE LET v == lookup_value(amp.entry_oracle, row, col) IN
         IF v.err # "" THEN [err |-> v.err, enc |-> NoEncoding]
         ELSE LET quotient == [num |-> (IF v.val.num < 0 THEN -v.val.num ELSE v.val.num)
                                          * amp.alpha.den,
                               den |-> v.val.den * amp.alpha.num]
                  normalized_abs == IF quotient.num <= quotient.den THEN quotient
                                    ELSE [num |-> 1, den |-> 1]
              IN  [err |-> "",
                   enc |-> AmplitudeEncoding(v.val, normalized_abs,
                               [two_asin_sqrt |-> normalized_abs],
                               IF v.val.num >= 0 THEN "0" ELSE "pi")]

AccessOracle(n_rows, n_cols, max_nnz, table) ==
    [n_rows |-> n_rows, n_cols |-> n_cols, max_nnz |-> max_nnz, table |-> table]

SparseOracleBundle(row_oracle, col_oracle, amplitude_oracle) ==
    [row_oracle |-> row_oracle, col_oracle |-> col_oracle,
     amplitude_oracle |-> amplitude_oracle]

NoBundle ==
    SparseOracleBundle(AccessOracle(0, 0, 0, <<>>), AccessOracle(0, 0, 0, <<>>),
                       FullDataLoadingAmplitudeOracle(NoEntryOracle, [num |-> 0, den |-> 1]))

\* SparseOracleBundle.from_functions
from_functions(a) ==
    LET rows == from_function([kind |-> "row", n_rows |-> a.n_rows, n_cols |-> a.n_cols,
                               max_nnz |-> a.max_row_nnz, fn |-> a.row_to_col_fn])
        cols == from_function([kind |-> "col", n_rows |-> a.n_rows, n_cols |-> a.n_cols,
                               max_nnz |-> a.max_col_nnz, fn |-> a.col_to_row_fn])
        entries == EntryBinaryOracle_from_function(a.n_rows, a.n_cols, a.value_bits,
                                                   a.frac_bits, a.entry_fn)
    IN  IF rows.err # "" THEN [err |-> rows.err, bundle |-> NoBundle]
        ELSE IF cols.err # "" THEN [err |-> cols.err, bundle |-> NoBundle]
        ELSE IF entries.err # "" THEN [err |-> entries.err, bundle |-> NoBundle]
        ELSE [err |-> "",
              bundle |-> SparseOracleBundle(
                  AccessOracle(a.n_rows, a.n_cols, a.max_row_nnz, rows.table),
                  AccessOracle(a.n_rows, a.n_cols, a.max_col_nnz, cols.table),
                  FullDataLoadingAmplitudeOracle(entries.oracle, a.alpha))]

BlockEncodingMetadata(name, alpha, ancilla_qubits, logical_cost_hint) ==
    [name |-> name, alpha |-> alpha, ancilla_qubits |-> ancilla_qubits,
     logical_cost_hint |-> logical_cost_hint]

BlockEncodingQuery(step, parameters) == [step |-> step, parameters |-> parameters]

\* SparseMatrixBlockEncoding.__init__
SparseMatrixBlockEncoding(b, name) ==
    [bundle |-> b,
     meta |-> BlockEncodingMetadata(name, b.amplitude_oracle.alpha, 1,
                                    <<<<"query_oracles", [num |-> 3, den |-> 1]>>>>)]

\* int(v) of a float v: truncation towards zero
IntOf(v) == IF v.num >= 0 THEN v.num \div v.den ELSE -((-v.num) \div v.den)

\* The amplitude is taken at (row, l_pos) instead of (row, col).
Mutant_query_EncodesSlot(b, request, h) ==
    LET params == request.parameters
        failed(e) == [err |-> e, heap |-> h, ref |-> 0]
    IN  IF ~DictHas(params, "row") \/ ~DictHas(params, "l_pos") THEN failed("KeyError")
        ELSE LET row == IntOf(DictGet(params, "row"))
                 l_pos == IntOf(DictGet(params, "l_pos"))
                 col == lookup(b.bundle.row_oracle.table, row, l_pos)
             IN  IF col.err # "" THEN failed(col.err)
                 ELSE LET amp == encode(b.bundle.amplitude_oracle, row, l_pos) IN
                      IF amp.err # "" THEN failed(amp.err)
                      ELSE [err |-> "",
                            heap |-> Append(h,
                                [op |-> "sparse_block_encoding_query",
                                 step |-> request.step,
                                 row |-> row,
                                 l_pos |-> l_pos,
                                 col |-> col.val,
                                 theta |-> amp.enc.theta,
                                 phase |-> amp.enc.phase,
                                 value |-> amp.enc.value,
                                 normalized_abs |-> amp.enc.normalized_abs]),
                            ref |-> Len(h) + 1]

\* The encoding counts its queries and reports the count in step.
Mutant_query_CountsCalls(b, request, h) ==
    LET params == request.parameters
        failed(e) == [err |-> e, heap |-> h, ref |-> 0]
    IN  IF ~DictHas(params, "row") \/ ~DictHas(params, "l_pos") THEN failed("KeyError")
        ELSE LET row == IntOf(DictGet(params, "row"))
                 l_pos == IntOf(DictGet(params, "l_pos"))
                 col == lookup(b.bundle.row_oracle.table, row, l_pos)
             IN  IF col.err # "" THEN failed(col.err)
                 ELSE LET amp == encode(b.bundle.amplitude_oracle, row, col.val) IN
                      IF amp.err # "" THEN failed(amp.err)
                      ELSE [err |-> "",
                            heap |-> Append(h,
                                [op |-> "sparse_block_encoding_query",
                                 step |-> request.step + Len(h),
                                 row |-> row,
                                 l_pos |-> l_pos,
                                 col |-> col.val,
                                 theta |-> amp.enc.theta,
                                 phase |-> amp.enc.phase,
                                 value |-> amp.enc.value,
                                 normalized_abs |-> amp.enc.normalized_abs]),
                            ref |-> Len(h) + 1]

\* SparseMatrixBlockEncoding.query: the dict it returns is a new object,
\* allocated at the end of the heap h
query(b, request, h) ==
    LET params == request.parameters
        failed(e) == [err |-> e, heap |-> h, ref |-> 0]
    IN  IF ~DictHas(params, "row") \/ ~DictHas(params, "l_pos") THEN failed("KeyError")
        ELSE LET row == IntOf(DictGet(params, "row"))
                 l_pos == IntOf(DictGet(params, "l_pos"))
                 col == lookup(b.bundle.row_oracle.table, row, l_pos)
             IN  IF col.err # "" THEN failed(col.err)
                 ELSE LET amp == encode(b.bundle.amplitude_oracle, row, col.val) IN
                      IF amp.err # "" THEN failed(amp.err)
                      ELSE [err |-> "",
                            heap |-> Append(h,
                                [op |-> "sparse_block_encoding_query",
                                 step |-> request.step,
                                 row |-> row,
                                 l_pos |-> l_pos,
                                 col |-> col.val,
                                 theta |-> amp.enc.theta,
                                 phase |-> amp.enc.phase,
                                 value |-> amp.enc.value,
                                 normalized_abs |-> amp.enc.normalized_abs]),
                            ref |-> Len(h) + 1]

\* The marker is written into the oldest dict of the heap, as if query handed
\* out one shared dict.
Mutant_adjoint_query(b, request, h) ==
    LET payload == query(b, request, h) IN
    IF payload.err # "" THEN payload
    ELSE [payload EXCEPT !.heap[1].op = "sparse_block_encoding_query_dagger"]

\* SparseMatrixBlockEncoding.adjoint_query: the dict query returned is
\* written to and returned
adjoint_query(b, request, h) ==
    LET payload == query(b, request, h) IN
    IF payload.err # "" THEN payload
    ELSE [payload EXCEPT !.heap[payload.ref].op = "sparse_block_encoding_query_dagger"]

(***************************************************************************)
(* Inputs of the synthesis specification: every form whose widths sum to   *)
(* at most MaxQubits; lookup tables with at most MaxMinterms 1-bits, their *)
(* items in ascending or in descending key order; every affine form; and,  *)
(* per shape, tables validate() rejects.                                   *)
(***************************************************************************)
Shapes == {s \in (0..MaxQubits) \X (0..MaxQubits) : s[1] + s[2] <= MaxQubits}

TableOf(n, m, S, descending) ==
    [i \in 1..Pow2(n) |->
        LET k == IF descending THEN Pow2(n) - i ELSE i - 1
        IN  <<k, SumSeq([j \in 1..m |-> IF <<k, j - 1>> \in S THEN Pow2(j - 1) ELSE 0])>>]

MintermSets(n, m) ==
    {S \in SUBSET ((0..(Pow2(n) - 1)) \X (0..(m - 1))) : Cardinality(S) <= MaxMinterms}

ValidLuts ==
    UNION {{LookupTableForm(s[1], s[2], TableOf(s[1], s[2], S, d), <<"lut">>) :
               S \in MintermSets(s[1], s[2]), d \in BOOLEAN} : s \in Shapes}

MalformedLuts ==
    UNION {LET zero == TableOf(s[1], s[2], {}, FALSE)
               last == Len(zero)
           IN
           {LookupTableForm(s[1], s[2], Tail(zero), <<"lut">>),
            LookupTableForm(s[1], s[2], [zero EXCEPT ![1] = <<0, Pow2(s[2])>>], <<"lut">>),
            LookupTableForm(s[1], s[2], [zero EXCEPT ![1] = <<Pow2(s[1]), 0>>], <<"lut">>),
            LookupTableForm(s[1], s[2], [zero EXCEPT ![last] = <<last - 1, -1>>], <<"lut">>),
            LookupTableForm(s[1], s[2], [zero EXCEPT ![last] = <<-1, 0>>], <<"lut">>),
            LookupTableForm(s[1], s[2], Append(zero, <<Pow2(s[1]), 0>>), <<"lut">>)}
           : s \in Shapes}

AffineForms ==
    UNION {{AffineXorForm(s[1], s[2], A, b, <<"affine_xor">>) :
               A \in [1..s[2] -> [1..s[1] -> {0, 1}]], b \in [1..s[2] -> {0, 1}]}
           : s \in Shapes}

MalformedAffineForms ==
    UNION {{AffineXorForm(s[1], s[2], [j \in 1..s[2] |-> [i \in 1..s[1] |-> 0]],
                          [j \in 1..(s[2] + 1) |-> 0], <<"affine_xor">>),
            AffineXorForm(s[1], s[2] + 1, [j \in 1..(s[2] + 1) |-> [i \in 1..s[1] |-> 0]],
                          [j \in 1..(s[2] + 1) |-> 2], <<"affine_xor">>)}
           : s \in Shapes}

Forms == ValidLuts \cup MalformedLuts \cup AffineForms \cup MalformedAffineForms

\* a callable that returns vals[x+1] on x
Returning(vals) == [i \in 1..Len(vals) |-> [err |-> "", val |-> vals[i]]]

\* Callables: those that return on x the value whose 1-bits are the (x, j) of
\* an enumerated minterm set, and those
\* that return 0 except for an output v outside the range, -1 or
\* 2^n_output_bits, at one input x0 or at every input from x0 on.
CallableForms ==
    UNION {{CompilableFunctionForm(s[1], s[2],
                Returning([i \in 1..Pow2(s[1]) |->
                    SumSeq([j \in 1..s[2] |->
                               IF <<i - 1, j - 1>> \in S THEN Pow2(j - 1) ELSE 0])]),
                <<"callable">>) : S \in MintermSets(s[1], s[2])}
           \cup {CompilableFunctionForm(s[1], s[2],
                     Returning([i \in 1..Pow2(s[1]) |->
                                   IF i - 1 = x0 \/ (onwards /\ i - 1 > x0) THEN v ELSE 0]),
                     <<"callable">>) :
                     x0 \in 0..(Pow2(s[1]) - 1), v \in {-1, Pow2(s[2])}, onwards \in BOOLEAN}
           : s \in Shapes}

\* a value that is none of the three forms
UnknownForms ==
    {[kind |-> "other", n_input_bits |-> 1, n_output_bits |-> 1, table |-> <<>>,
      matrix |-> <<>>, offset_bits |-> <<>>, fn |-> <<>>, name |-> <<"other">>]}

\* Configurations: the default one, and those that forbid enumeration or cap
\* the input width at 0..MaxQubits.
Configs ==
    {SynthConfig}
    \cup [max_truth_table_input_bits : 0..MaxQubits, allow_callable_enumeration : BOOLEAN]

NoCost == [err |-> "unset", cost |-> GateCost(0, 0, 0, 0, 0, 0)]

CostIdle == ops = <<>> /\ ret = NoCost

FixedIdle ==
    /\ fx = [value |-> [num |-> 0, den |-> 1], total_bits |-> 0, frac_bits |-> 0]
    /\ enc = [err |-> "unset", bits |-> <<>>]
    /\ dec = [err |-> "unset", val |-> [num |-> 0, den |-> 1]]

OracleIdle ==
    /\ oargs = [kind |-> "none", n_rows |-> 0, n_cols |-> 0, max_nnz |-> 0,
                fn |-> [a |-> 0, b |-> 0, c |-> 0, modulus |-> 1, shift |-> 0]]
    /\ ocalls = <<>> /\ otable = <<>> /\ ostatus = "idle"
    /\ oret = [call |-> "none", err |-> "", table |-> <<>>, circ |-> NoCircuit]

NoLowered == [err |-> "unset", lut |-> <<>>, calls |-> <<>>]

NoBlockEncoding == SparseMatrixBlockEncoding(NoBundle, <<>>)

NoAmplitude == [call |-> "none", row |-> 0, col |-> 0, err |-> "", enc |-> NoEncoding]

BundleIdle ==
    /\ bargs = [n_rows |-> 0, n_cols |-> 0, max_row_nnz |-> 0, max_col_nnz |-> 0,
                row_to_col_fn |-> [a |-> 0, b |-> 0, c |-> 0, modulus |-> 1, shift |-> 0],
                col_to_row_fn |-> [a |-> 0, b |-> 0, c |-> 0, modulus |-> 1, shift |-> 0],
                entry_fn |-> [diag |-> [num |-> 0, den |-> 1],
                              off |-> [num |-> 0, den |-> 1]],
                value_bits |-> 0, frac_bits |-> 0, alpha |-> [num |-> 0, den |-> 1]]
    /\ bundle = [err |-> "idle", bundle |-> NoBundle]
    /\ be = NoBlockEncoding /\ heap = <<>> /\ blog = <<>> /\ aret = NoAmplitude /\ dlog = <<>>

NoUint == [err |-> "unset", bits |-> <<>>]

UintIdle ==
    /\ uargs = [size |-> BigZero, index |-> BigZero]
    /\ uenc = NoUint /\ udec = [err |-> "unset", val |-> BigZero]

NoRun == [err |-> "unset", operations |-> <<>>]

SchedIdle == sched = <<>> /\ appended = <<>> /\ srun = NoRun

SynthIdle ==
    /\ form = LookupTableForm(0, 0, <<>>, <<>>)
    /\ config = SynthConfig /\ lowered = NoLowered
    /\ phase = "idle" /\ circ = NoCircuit /\ raised = "" /\ xin = 0 /\ wires = <<>> /\ pc = 0
    /\ cost = NoCost

(***************************************************************************)
(* Synthesis: a caller compiles a form, then either asks for the cost of   *)
(* the circuit or executes it, one operation at a time, on |x>|0>.         *)
(***************************************************************************)
InitSynth ==
    /\ form \in Forms
    /\ config = SynthConfig /\ lowered = NoLowered
    /\ phase = "start" /\ circ = NoCircuit /\ raised = "" /\ xin = 0
    /\ wires = <<>> /\ pc = 0 /\ cost = NoCost
    /\ CostIdle /\ FixedIdle /\ OracleIdle /\ BundleIdle /\ UintIdle /\ SchedIdle

\* circ = compile_function_form(form, config)
Compile ==
    /\ phase = "start"
    /\ LET r == compile_function_form(form, config) IN
          /\ circ' = r.circ
          /\ raised' = r.err
          /\ phase' = IF r.err = "" THEN "compiled" ELSE "failed"
    /\ UNCHANGED <<form, config, lowered, xin, wires, pc, cost>>
    /\ UNCHANGED <<costVars, fixedVars, oracleVars, bundleVars, uintVars, schedVars>>

\* cost = circ.estimate_cost()
EstimateCost ==
    /\ phase = "compiled"
    /\ cost' = estimate_cost(circ.operations)
    /\ phase' = "costed"
    /\ UNCHANGED <<form, config, lowered, circ, raised, xin, wires, pc>>
    /\ UNCHANGED <<costVars, fixedVars, oracleVars, bundleVars, uintVars, schedVars>>

\* the wires are set to |x>|0> for an input x of the circuit's domain
Prepare ==
    /\ phase = "compiled"
    /\ \E x \in 0..(Pow2(circ.n_input_bits) - 1) :
          /\ xin' = x
          /\ wires' = InitialWires(circ.n_input_bits, circ.n_output_bits, x)
    /\ pc' = 0
    /\ phase' = "running"
    /\ UNCHANGED <<form, config, lowered, circ, raised, cost>>
    /\ UNCHANGED <<costVars, fixedVars, oracleVars, bundleVars, uintVars, schedVars>>

\* the next operation of the circuit acts on the wires
Step ==
    /\ phase = "running"
    /\ pc < Len(circ.operations)
    /\ wires' = ApplyOp(circ.operations[pc + 1], wires)
    /\ pc' = pc + 1
    /\ UNCHANGED <<form, config, lowered, phase, circ, raised, xin, cost>>
    /\ UNCHANGED <<costVars, fixedVars, oracleVars, bundleVars, uintVars, schedVars>>

NextSynth == Compile \/ EstimateCost \/ Prepare \/ Step

SpecSynth == InitSynth /\ [][NextSynth]_vars

(***************************************************************************)
(* Compilation: a caller hands any form, with any configuration, to        *)
(* compile_function_form, or calls to_lookup_table on a callable form.     *)
(***************************************************************************)
InitCompile ==
    /\ \/ form \in Forms \cup UnknownForms /\ config = SynthConfig
       \/ form \in CallableForms /\ config \in Configs
    /\ lowered = NoLowered
    /\ phase = "start" /\ circ = NoCircuit /\ raised = "" /\ xin = 0
    /\ wires = <<>> /\ pc = 0 /\ cost = NoCost
    /\ CostIdle /\ FixedIdle /\ OracleIdle /\ BundleIdle /\ UintIdle /\ SchedIdle

\* lowered = form.to_lookup_table(config)
ToLookupTable ==
    /\ phase = "start"
    /\ form.kind = "callable"
    /\ lowered' = CompilableFunctionForm_to_lookup_table(form, config)
    /\ phase' = "lowered"
    /\ UNCHANGED <<form, config, circ, raised, xin, wires, pc, cost>>
    /\ UNCHANGED <<costVars, fixedVars, oracleVars, bundleVars, uintVars, schedVars>>

NextCompile == Compile \/ ToLookupTable

SpecCompile == InitCompile /\ [][NextCompile]_vars

\* the circuit has been executed to its end
Executed == phase = "running" /\ pc = Len(circ.operations)

InputRegister == Register(wires, 0, circ.n_input_bits)

OutputRegister == Register(wires, circ.n_input_bits, circ.n_output_bits)

(***************************************************************************)
(* Estimator: a caller builds a circuit by ReversibleCircuit.append, of    *)
(* any gates, and asks for its cost.                                       *)
(***************************************************************************)
HandOps ==
    {ReversibleOp("x", <<>>, <<>>, 0),
     ReversibleOp("cx", <<0>>, <<1>>, 1),
     ReversibleOp("h", <<>>, <<>>, 0)}
    \cup {ReversibleOp("mcx", Range(k), [i \in 1..k |-> 1], k) : k \in 0..MaxControls}

InitCost ==
    /\ ops = <<>> /\ ret = NoCost
    /\ SynthIdle /\ FixedIdle /\ OracleIdle /\ BundleIdle /\ UintIdle /\ SchedIdle

\* circ.append(op)
AppendOp ==
    /\ Len(ops) < MaxOps
    /\ \E op \in HandOps : ops' = Append(ops, op)
    /\ ret' = NoCost
    /\ UNCHANGED <<synthVars, fixedVars, oracleVars, bundleVars, uintVars, schedVars>>

\* circ.estimate_cost()
EstimateCostOfOps ==
    /\ ret' = estimate_cost(ops)
    /\ UNCHANGED ops
    /\ UNCHANGED <<synthVars, fixedVars, oracleVars, bundleVars, uintVars, schedVars>>

NextCost == AppendOp \/ EstimateCostOfOps

SpecCost == InitCost /\ [][NextCost]_vars

(***************************************************************************)
(* Fixed point: a caller encodes a value and decodes the bit string.  The  *)
(* values are the multiples of 2^-SubBits of one LSB from MaxOverflow LSBs *)
(* below the representable range to MaxOverflow LSBs above it.             *)
(***************************************************************************)
FixedInputs ==
    UNION {{[value |-> [num |-> q, den |-> Pow2(f + SubBits)], total_bits |-> t,
             frac_bits |-> f] :
               q \in ((-Pow2(t - 1) - MaxOverflow) * Pow2(SubBits))
                     ..((Pow2(t - 1) - 1 + MaxOverflow) * Pow2(SubBits))}
           : t \in 1..MaxTotalBits, f \in 0..MaxFracBits}

InitFixed ==
    /\ fx \in FixedInputs
    /\ enc = [err |-> "unset", bits |-> <<>>]
    /\ dec = [err |-> "unset", val |-> [num |-> 0, den |-> 1]]
    /\ SynthIdle /\ CostIdle /\ OracleIdle /\ BundleIdle /\ UintIdle /\ SchedIdle

\* enc = _encode_signed_fixed(value, total_bits, frac_bits)
Encode ==
    /\ enc.err = "unset"
    /\ enc' = _encode_signed_fixed(fx.value, fx.total_bits, fx.frac_bits)
    /\ UNCHANGED <<fx, dec>>
    /\ UNCHANGED <<synthVars, costVars, oracleVars, bundleVars, uintVars, schedVars>>

\* dec = _decode_signed_fixed(enc, frac_bits)
Decode ==
    /\ enc.err = ""
    /\ dec.err = "unset"
    /\ dec' = [err |-> "", val |-> _decode_signed_fixed(enc.bits, fx.frac_bits)]
    /\ UNCHANGED <<fx, enc>>
    /\ UNCHANGED <<synthVars, costVars, oracleVars, bundleVars, uintVars, schedVars>>

NextFixed == Encode \/ Decode

SpecFixed == InitFixed /\ [][NextFixed]_vars

(***************************************************************************)
(* Access oracles: a caller builds a row or a column oracle by             *)
(* from_function, which calls the generating function once per loop        *)
(* iteration, and then calls compile_truth_table and                       *)
(* compile_reversible_circuit on the oracle.  The generating functions are *)
(* (index, l_pos) -> ((a*index + b*l_pos + c) mod modulus) - shift, which  *)
(* produce targets inside and outside [0, bound).                          *)
(***************************************************************************)
GeneratingFns ==
    [a : 0..2, b : 0..2, c : 0..1, modulus : 1..(MaxDim + 1), shift : 0..1]

OracleInputs ==
    [kind : {"row", "col"}, n_rows : 0..MaxDim, n_cols : 0..MaxDim,
     max_nnz : 0..MaxNnz, fn : GeneratingFns]

NoReturn == [call |-> "none", err |-> "", table |-> <<>>, circ |-> NoCircuit]

InitOracle ==
    /\ oargs \in OracleInputs
    /\ ocalls = <<>> /\ otable = <<>> /\ ostatus = "building"
    /\ oret = NoReturn
    /\ SynthIdle /\ CostIdle /\ FixedIdle /\ BundleIdle /\ UintIdle /\ SchedIdle

\* one iteration of from_function's loops: the function is called, and its
\* result is stored or, outside the bound, raises
FromFunctionCall ==
    /\ ostatus = "building"
    /\ ~LoopDone(oargs, ocalls)
    /\ LET at == LoopNext(oargs, ocalls)
           target == CallFn(oargs.fn, at[1], at[2])
       IN  /\ ocalls' = Append(ocalls, at)
           /\ IF TargetInBound(target, OracleBound(oargs))
              THEN otable' = DictSet(otable, at, target) /\ ostatus' = "building"
              ELSE otable' = otable /\ ostatus' = "failed"
    /\ UNCHANGED <<oargs, oret>>
    /\ UNCHANGED <<synthVars, costVars, fixedVars, bundleVars, uintVars, schedVars>>

\* from_function returns the oracle
FromFunctionReturn ==
    /\ ostatus = "building"
    /\ LoopDone(oargs, ocalls)
    /\ ostatus' = "built"
    /\ UNCHANGED <<oargs, ocalls, otable, oret>>
    /\ UNCHANGED <<synthVars, costVars, fixedVars, bundleVars, uintVars, schedVars>>

\* oracle.compile_truth_table()
CompileTruthTable ==
    /\ ostatus = "built"
    /\ LET r == compile_truth_table(oargs, otable)
       IN  oret' = [call |-> "compile_truth_table", err |-> r.err, table |-> r.table,
                    circ |-> NoCircuit]
    /\ UNCHANGED <<oargs, ocalls, otable, ostatus>>
    /\ UNCHANGED <<synthVars, costVars, fixedVars, bundleVars, uintVars, schedVars>>

\* oracle.compile_reversible_circuit()
CompileReversibleCircuit ==
    /\ ostatus = "built"
    /\ LET r == compile_reversible_circuit(oargs, otable)
       IN  oret' = [call |-> "compile_reversible_circuit", err |-> r.err, table |-> <<>>,
                    circ |-> r.circ]
    /\ UNCHANGED <<oargs, ocalls, otable, ostatus>>
    /\ UNCHANGED <<synthVars, costVars, fixedVars, bundleVars, uintVars, schedVars>>

NextOracle ==
    FromFunctionCall \/ FromFunctionReturn \/ CompileTruthTable \/ CompileReversibleCircuit

SpecOracle == InitOracle /\ [][NextOracle]_vars

(***************************************************************************)
(* Bundle: a caller builds a SparseOracleBundle by from_functions and      *)
(* either calls amplitude_oracle.encode on it or wraps it in a             *)
(* SparseMatrixBlockEncoding and sends it a request, twice, each time to   *)
(* query or to adjoint_query.  One generating function serves the row and  *)
(* the column oracle; the entries are whole LSBs, inside and outside the   *)
(* range of value_bits; alpha is negative, zero, below and above the       *)
(* entries.  A request parameter is a float, [num, den].                   *)
(***************************************************************************)
BundleFns == [a : 0..1, b : {1}, c : {0}, modulus : 1..(MaxBundleDim + 1), shift : {0}]

Alphas == {[num |-> n, den |-> 2] : n \in {-1, 0, 1, 4}}

\* the diagonal entry, in LSBs: just below the range of value_bits, its
\* least value, -1, 1, or just above the range
DiagNum(pick, value_bits) ==
    IF pick = "below" THEN -Pow2(value_bits - 1) - 1
    ELSE IF pick = "least" THEN -Pow2(value_bits - 1)
    ELSE IF pick = "minus_one" THEN -1
    ELSE IF pick = "one" THEN 1
    ELSE Pow2(value_bits - 1)

BundleChoices ==
    [n_rows : 1..MaxBundleDim, n_cols : 1..MaxBundleDim, max_nnz : 1..MaxBundleDim,
     fn : BundleFns, value_bits : 2..MaxValueBits, frac_bits : 0..1, alpha : Alphas,
     diag : {"below", "least", "minus_one", "one", "above"}, off : {-1, 0}]

\* the arguments of from_functions a choice stands for
BundleInput(c) ==
    [n_rows |-> c.n_rows, n_cols |-> c.n_cols,
     max_row_nnz |-> c.max_nnz, max_col_nnz |-> c.max_nnz,
     row_to_col_fn |-> c.fn, col_to_row_fn |-> c.fn,
     entry_fn |-> [diag |-> [num |-> DiagNum(c.diag, c.value_bits),
                             den |-> Pow2(c.frac_bits)],
                   off |-> [num |-> c.off, den |-> Pow2(c.frac_bits)]],
     value_bits |-> c.value_bits, frac_bits |-> c.frac_bits, alpha |-> c.alpha]

RequestFor(step, row, l_pos) ==
    BlockEncodingQuery(step, <<<<"row", row>>, <<"l_pos", l_pos>>>>)

Whole(k) == [num |-> k, den |-> 1]

\* the requests inside the row oracle's domain, one with a row outside it,
\* one with fractional parameters and one without parameters
Requests ==
    {RequestFor(s, Whole(r), Whole(l)) :
        s \in 0..1, r \in 0..(bargs.n_rows - 1), l \in 0..(bargs.max_row_nnz - 1)}
    \cup {RequestFor(0, Whole(bargs.n_rows), Whole(0)),
          RequestFor(0, [num |-> 1, den |-> 2], [num |-> -1, den |-> 2]),
          BlockEncodingQuery(0, <<>>)}

InitBundle ==
    /\ \E c \in BundleChoices : bargs = BundleInput(c)
    /\ bundle = [err |-> "unset", bundle |-> NoBundle]
    /\ be = NoBlockEncoding /\ heap = <<>> /\ blog = <<>> /\ aret = NoAmplitude /\ dlog = <<>>
    /\ SynthIdle /\ CostIdle /\ FixedIdle /\ OracleIdle /\ UintIdle /\ SchedIdle

\* bundle = SparseOracleBundle.from_functions(...)
FromFunctions ==
    /\ bundle.err = "unset"
    /\ bundle' = from_functions(bargs)
    /\ UNCHANGED <<bargs, be, heap, blog, aret, dlog>>
    /\ UNCHANGED <<synthVars, costVars, fixedVars, oracleVars, uintVars, schedVars>>

\* bundle.amplitude_oracle.encode(row, col)
EncodeCall ==
    /\ bundle.err = ""
    /\ be = NoBlockEncoding
    /\ aret.call = "none"
    /\ \E row \in 0..bargs.n_rows, col \in 0..bargs.n_cols :
          LET r == encode(bundle.bundle.amplitude_oracle, row, col)
          IN  aret' = [call |-> "encode", row |-> row, col |-> col, err |-> r.err,
                       enc |-> r.enc]
    /\ UNCHANGED <<bargs, bundle, be, heap, blog, dlog>>
    /\ UNCHANGED <<synthVars, costVars, fixedVars, oracleVars, uintVars, schedVars>>

\* be = SparseMatrixBlockEncoding(bundle)
NewBlockEncoding ==
    /\ bundle.err = ""
    /\ be = NoBlockEncoding
    /\ aret.call = "none"
    /\ be' = SparseMatrixBlockEncoding(bundle.bundle, <<"sparse_full_load">>)
    /\ UNCHANGED <<bargs, bundle, heap, blog, aret, dlog>>
    /\ UNCHANGED <<synthVars, costVars, fixedVars, oracleVars, uintVars, schedVars>>

\* be.query(request)
QueryCall ==
    /\ be # NoBlockEncoding
    /\ Len(blog) < 2
    /\ \E request \in Requests :
          /\ blog # <<>> => request = blog[1].request
          /\ LET r == query(be, request, heap)
             IN  /\ heap' = r.heap
                 /\ blog' = Append(blog, [call |-> "query", request |-> request,
                                          err |-> r.err, ref |-> r.ref])
    /\ UNCHANGED <<bargs, bundle, be, aret, dlog>>
    /\ UNCHANGED <<synthVars, costVars, fixedVars, oracleVars, uintVars, schedVars>>

\* be.adjoint_query(request)
AdjointQueryCall ==
    /\ be # NoBlockEncoding
    /\ Len(blog) < 2
    /\ \E request \in Requests :
          /\ blog # <<>> => request = blog[1].request
          /\ LET r == adjoint_query(be, request, heap)
             IN  /\ heap' = r.heap
                 /\ blog' = Append(blog, [call |-> "adjoint_query", request |-> request,
                                          err |-> r.err, ref |-> r.ref])
    /\ UNCHANGED <<bargs, bundle, be, aret, dlog>>
    /\ UNCHANGED <<synthVars, costVars, fixedVars, oracleVars, uintVars, schedVars>>

NextBundle ==
    FromFunctions \/ EncodeCall \/ NewBlockEncoding \/ QueryCall \/ AdjointQueryCall

SpecBundle == InitBundle /\ [][NextBundle]_vars

(***************************************************************************)
(* Calls on a built bundle: the methods of its three oracles are called    *)
(* directly, in any order and between the queries of the block encoding;   *)
(* a second direct call repeats the first.                                 *)
(***************************************************************************)
AsRowOracle(o) == [kind |-> "row", n_rows |-> o.n_rows, n_cols |-> o.n_cols, max_nnz |-> o.max_nnz]

AsColOracle(o) == [kind |-> "col", n_rows |-> o.n_rows, n_cols |-> o.n_cols, max_nnz |-> o.max_nnz]

DirectCalls ==
    [method : {"row.lookup", "col.lookup", "entry.lookup_bits", "entry.lookup_value",
               "amplitude.encode"},
     args : (0..1) \X {0}]
    \cup [method : {"row.compile_truth_table", "col.compile_truth_table",
                    "entry.compile_truth_table", "row.compile_reversible_circuit",
                    "col.compile_reversible_circuit"},
          args : {<<>>}]

\* the method c.method of bundle b's oracle, called on c.args
DirectCall(b, c) ==
    LET entry == b.amplitude_oracle.entry_oracle IN
    IF c.method = "row.lookup"
    THEN lookup(b.row_oracle.table, c.args[1], c.args[2])
    ELSE IF c.method = "col.lookup"
    THEN lookup(b.col_oracle.table, c.args[1], c.args[2])
    ELSE IF c.method = "entry.lookup_bits"
    THEN LET r == lookup_bits(entry, c.args[1], c.args[2]) IN [err |-> r.err, val |-> r.bits]
    ELSE IF c.method = "entry.lookup_value"
    THEN lookup_value(entry, c.args[1], c.args[2])
    ELSE IF c.method = "amplitude.encode"
    THEN LET r == encode(b.amplitude_oracle, c.args[1], c.args[2])
         IN  [err |-> r.err, val |-> r.enc]
    ELSE IF c.method = "row.compile_truth_table"
    THEN LET r == compile_truth_table(AsRowOracle(b.row_oracle), b.row_oracle.table)
         IN  [err |-> r.err, val |-> r.table]
    ELSE IF c.method = "col.compile_truth_table"
    THEN LET r == compile_truth_table(AsColOracle(b.col_oracle), b.col_oracle.table)
         IN  [err |-> r.err, val |-> r.table]
    ELSE IF c.method = "entry.compile_truth_table"
    THEN LET r == EntryBinaryOracle_compile_truth_table(entry)
         IN  [err |-> r.err, val |-> r.table]
    ELSE IF c.method = "row.compile_reversible_circuit"
    THEN LET r == compile_reversible_circuit(AsRowOracle(b.row_oracle), b.row_oracle.table)
         IN  [err |-> r.err, val |-> r.circ]
    ELSE LET r == compile_reversible_circuit(AsColOracle(b.col_oracle), b.col_oracle.table)
         IN  [err |-> r.err, val |-> r.circ]

\* matrices with 1 on the diagonal and -1 elsewhere, on two value bits;
\* slot l of row r is column (r + l) mod n_cols
CallInputs ==
    {[n_rows |-> d.n_rows, n_cols |-> d.n_cols,
      max_row_nnz |-> d.max_nnz, max_col_nnz |-> d.max_nnz,
      row_to_col_fn |-> [a |-> 1, b |-> 1, c |-> 0, modulus |-> d.n_cols, shift |-> 0],
      col_to_row_fn |-> [a |-> 1, b |-> 1, c |-> 0, modulus |-> d.n_rows, shift |-> 0],
      entry_fn |-> [diag |-> [num |-> 1, den |-> 1], off |-> [num |-> -1, den |-> 1]],
      value_bits |-> 2, frac_bits |-> 0, alpha |-> d.alpha] :
        d \in [n_rows : 1..MaxBundleDim, n_cols : 1..MaxBundleDim, max_nnz : 1..MaxBundleDim,
               alpha : {[num |-> 1, den |-> 2], [num |-> 0, den |-> 1]}]}

InitCalls ==
    /\ bargs \in CallInputs
    /\ bundle = [err |-> "unset", bundle |-> NoBundle]
    /\ be = NoBlockEncoding /\ heap = <<>> /\ blog = <<>> /\ aret = NoAmplitude /\ dlog = <<>>
    /\ SynthIdle /\ CostIdle /\ FixedIdle /\ OracleIdle /\ UintIdle /\ SchedIdle

\* one of the oracles' methods is called on the built bundle
OracleCall ==
    /\ bundle.err = ""
    /\ Len(dlog) < 2
    /\ \E c \in DirectCalls :
          /\ dlog # <<>> => (c.method = dlog[1].method /\ c.args = dlog[1].args)
          /\ LET r == DirectCall(bundle.bundle, c)
             IN  dlog' = Append(dlog, [method |-> c.method, args |-> c.args,
                                       err |-> r.err, val |-> r.val])
    /\ UNCHANGED <<bargs, bundle, be, heap, blog, aret>>
    /\ UNCHANGED <<synthVars, costVars, fixedVars, oracleVars, uintVars, schedVars>>

NextCalls ==
    FromFunctions \/ OracleCall \/ EncodeCall \/ NewBlockEncoding \/ QueryCall \/ AdjointQueryCall

SpecCalls == InitCalls /\ [][NextCalls]_vars

(***************************************************************************)
(* Index codec: a domain size n >= 1 and an index are chosen; the index is *)
(* encoded on _bits_for_range(n) bits and the string is decoded again.     *)
(* Sizes and indexes are 2^top + low, which reaches the sizes whose log2   *)
(* is not exact in a double.                                               *)
(***************************************************************************)
BigInts ==
    {Big(c.top, c.low) : c \in {d \in [top : 0..MaxTop, low : 0..MaxLow] :
                                    d.low <= d.top \/ d.low < Pow2(d.top)}}

InitUint ==
    /\ \E n \in BigInts : \E i \in {BigZero} \cup {j \in BigInts : j.top <= n.top} :
          uargs = [size |-> n, index |-> i]
    /\ uenc = NoUint /\ udec = [err |-> "unset", val |-> BigZero]
    /\ SynthIdle /\ CostIdle /\ FixedIdle /\ OracleIdle /\ BundleIdle /\ SchedIdle

EncodeUint ==
    /\ uenc = NoUint
    /\ uenc' = Big_encode_uint(uargs.index, Big_bits_for_range(uargs.size))
    /\ UNCHANGED <<uargs, udec>>
    /\ UNCHANGED <<synthVars, costVars, fixedVars, oracleVars, bundleVars, schedVars>>

DecodeUint ==
    /\ uenc # NoUint /\ uenc.err = "" /\ udec.err = "unset"
    /\ udec' = [err |-> "", val |-> Big_decode_uint(uenc.bits)]
    /\ UNCHANGED <<uargs, uenc>>
    /\ UNCHANGED <<synthVars, costVars, fixedVars, oracleVars, bundleVars, schedVars>>

NextUint == EncodeUint \/ DecodeUint

SpecUint == InitUint /\ [][NextUint]_vars

(***************************************************************************)
(* algorithms/query_model.py and algorithms/generalized_query_algorithm.py: *)
(* a schedule of query calls over block encodings of different classes,    *)
(* and the runner that issues them.  The encodings are the test suite's    *)
(* _Encoding and SparseMatrixBlockEncoding.                                *)
(***************************************************************************)
\* tests/test_query_schedule.py: _Encoding(name)
_Encoding(name) == [kind |-> "_Encoding", meta |-> BlockEncodingMetadata(name, [num |-> 1, den |-> 1], 1, <<>>)]

\* _Encoding.query: the pair (name, step)
_Encoding_query(e, request) == [err |-> "", op |-> <<e.meta.name, request.step>>]

\* call.encoding.query(call.request): dispatch on the encoding's class
encoding_query(e, request) ==
    IF "kind" \in DOMAIN e THEN _Encoding_query(e, request)
    ELSE LET r == query(e, request, <<>>)
         IN  IF r.err # "" THEN [err |-> r.err, op |-> <<>>]
             ELSE [err |-> "", op |-> r.heap[r.ref]]

NewQueryCall(index, encoding, request) == [index |-> index, encoding |-> encoding, request |-> request]

\* QuerySchedule.__init__
QuerySchedule == <<>>

QuerySchedule_append(calls, call) == Append(calls, call)

QuerySchedule_iter(calls) == calls

QuerySchedule_len(calls) == Len(calls)

RECURSIVE RunFrom(_, _)
RunFrom(calls, done) ==
    IF calls = <<>> THEN [err |-> "", operations |-> done]
    ELSE LET r == encoding_query(Head(calls).encoding, Head(calls).request)
         IN  IF r.err # "" THEN [err |-> r.err, operations |-> <<>>]
             ELSE RunFrom(Tail(calls), Append(done, r.op))

\* The operations are collected last call first.
Mutant_run(schedule) ==
    LET r == RunFrom(QuerySchedule_iter(schedule), <<>>)
    IN  [r EXCEPT !.operations = Reverse(r.operations)]

\* GeneralizedQueryAlgorithm.run
GeneralizedQueryAlgorithm_run(schedule) == RunFrom(QuerySchedule_iter(schedule), <<>>)

\* a 2x2 identity matrix on two value bits, encoded with the given alpha
SparseEncoding(alpha) ==
    SparseMatrixBlockEncoding(
        from_functions(
            [n_rows |-> 2, n_cols |-> 2, max_row_nnz |-> 1, max_col_nnz |-> 1,
             row_to_col_fn |-> [a |-> 1, b |-> 1, c |-> 0, modulus |-> 2, shift |-> 0],
             col_to_row_fn |-> [a |-> 1, b |-> 1, c |-> 0, modulus |-> 2, shift |-> 0],
             entry_fn |-> [diag |-> [num |-> 1, den |-> 1], off |-> [num |-> 0, den |-> 1]],
             value_bits |-> 2, frac_bits |-> 0, alpha |-> alpha]).bundle,
        <<"sparse_block_encoding">>)

\* two _Encoding objects, a sparse encoding, and a sparse encoding whose
\* queries raise (alpha = 0)
StubEncodings == {_Encoding(<<"enc_a">>), _Encoding(<<"enc_b">>)}

SparseEncodings == {SparseEncoding([num |-> 1, den |-> 2]), SparseEncoding([num |-> 0, den |-> 1])}

\* the calls a caller may append at position k
CallsAt(k) ==
    {NewQueryCall(k, e, BlockEncodingQuery(step, <<>>)) : e \in StubEncodings, step \in 0..1}
    \cup {NewQueryCall(k, e, BlockEncodingQuery(step, <<>>)) : e \in SparseEncodings, step \in 0..1}
    \cup {NewQueryCall(k, e, RequestFor(step, Whole(row), Whole(0))) :
             e \in SparseEncodings, step \in 0..1, row \in 0..1}

InitSched ==
    /\ sched = QuerySchedule /\ appended = <<>> /\ srun = NoRun
    /\ SynthIdle /\ CostIdle /\ FixedIdle /\ OracleIdle /\ BundleIdle /\ UintIdle

AppendCall ==
    /\ srun = NoRun /\ Len(appended) < MaxCalls
    /\ \E call \in CallsAt(Len(appended)) :
          /\ sched' = QuerySchedule_append(sched, call)
          /\ appended' = Append(appended, call)
    /\ UNCHANGED srun
    /\ UNCHANGED <<synthVars, costVars, fixedVars, oracleVars, bundleVars, uintVars>>

Run ==
    /\ srun = NoRun
    /\ srun' = GeneralizedQueryAlgorithm_run(sched)
    /\ UNCHANGED <<sched, appended>>
    /\ UNCHANGED <<synthVars, costVars, fixedVars, oracleVars, bundleVars, uintVars>>

NextSched == AppendCall \/ Run

SpecSched == InitSched /\ [][NextSched]_vars

(***************************************************************************)
(* C1                                                                      *)
(***************************************************************************)
\* C1: for a valid LookupTableForm and any input x, executing the operations of
\* compile_lookup_table in order on input register = x, output register = 0
\* ends with input register = x and output register = table[x].
C1_LookupCircuitComputesTable ==
    (Executed /\ form.kind = "lut") =>
        /\ InputRegister = xin
        /\ OutputRegister = DictGet(form.table, xin)

\* a 3-input table with two minterms, executed on an input that has 0 bits and
\* is one of the minterms
C1_Witness ==
    /\ Executed /\ form.kind = "lut"
    /\ form.n_input_bits = 3
    /\ Cardinality({i \in 1..Len(form.table) : form.table[i][2] # 0}) = 2
    /\ xin = 2
    /\ OutputRegister = 1
    /\ pc > 6

(***************************************************************************)
(* C3                                                                      *)
(***************************************************************************)
\* parity of the input bits of x selected by a matrix row, xor the offset bit
ParityBit(row, offset_bit, x) ==
    (offset_bit + Cardinality({i \in 1..Len(row) : row[i] = 1 /\ Bit(x, i - 1) = 1})) % 2

\* C3: for a valid AffineXorForm and any input x, executing compile_affine_xor
\* on input register = x, output register = 0 leaves the input register at x and
\* the output register at form.evaluate(x), whose bit j is offset_bits[j] xor the
\* parity of the input bits i with matrix[j][i] = 1.
C3_AffineCircuitComputesEvaluate ==
    (Executed /\ form.kind = "affine") =>
        /\ InputRegister = xin
        /\ AffineXorForm_evaluate(form, xin).err = ""
        /\ OutputRegister = AffineXorForm_evaluate(form, xin).val
        /\ \A j \in 1..form.n_output_bits :
              Bit(OutputRegister, j - 1) = ParityBit(form.matrix[j], form.offset_bits[j], xin)

\* two output bits, one with its offset set, both selecting input bits that are 1
C3_Witness ==
    /\ Executed /\ form.kind = "affine"
    /\ form.n_input_bits = 2 /\ form.n_output_bits = 2
    /\ form.matrix = <<<<1, 1>>, <<0, 1>>>>
    /\ form.offset_bits = <<0, 1>>
    /\ xin = 3
    /\ OutputRegister = 0

(***************************************************************************)
(* C4                                                                      *)
(***************************************************************************)
Ones(s) == Cardinality({i \in 1..Len(s) : s[i] = 1})

\* C4: for a valid AffineXorForm the circuit of compile_function_form has only
\* x and cx operations, and its estimate_cost() has no Toffoli, T, T-depth or
\* ancilla, cnot_count = number of 1s in the matrix and x_count = number of 1s
\* in offset_bits.
C4_AffineCostIsLinear ==
    (form.kind = "affine" /\ phase \in {"compiled", "costed", "running"}) =>
        /\ \A i \in 1..Len(circ.operations) : circ.operations[i].gate \in {"x", "cx"}
        /\ phase = "costed" =>
              /\ cost.err = ""
              /\ cost.cost.toffoli_count = 0
              /\ cost.cost.t_count = 0
              /\ cost.cost.t_depth_estimate = 0
              /\ cost.cost.ancilla_peak_estimate = 0
              /\ cost.cost.cnot_count =
                    SumSeq([j \in 1..Len(form.matrix) |-> Ones(form.matrix[j])])
              /\ cost.cost.x_count = Ones(form.offset_bits)

\* the form of test_compile_affine_xor_has_no_t_cost, up to the model's widths:
\* three 1s in the matrix, one offset bit
C4_Witness ==
    /\ phase = "costed" /\ form.kind = "affine"
    /\ form.matrix = <<<<1, 1>>, <<0, 1>>>>
    /\ form.offset_bits = <<0, 1>>
    /\ cost.cost.cnot_count = 3
    /\ cost.cost.x_count = 1

(***************************************************************************)
(* C5                                                                      *)
(***************************************************************************)
ZeroBits(x, n) == Cardinality({w \in 0..(n - 1) : Bit(x, w) = 0})

\* M: the (output bit, input) pairs with that bit of table[input] equal to 1
CountM(f) ==
    SumSeq([j \in 1..f.n_output_bits |->
        Cardinality({i \in 1..Len(f.table) : Bit(f.table[i][2], j - 1) = 1})])

\* Z: the 0 input bits summed over those minterms
CountZ(f) ==
    SumSeq([j \in 1..f.n_output_bits |->
        SumSeq([i \in 1..Len(f.table) |->
            IF Bit(f.table[i][2], j - 1) = 1
            THEN ZeroBits(f.table[i][1], f.n_input_bits) ELSE 0])])

\* T of the claim, for n >= 2
C5_T(n) == IF n = 2 THEN 1 ELSE 2 * n - 3

\* C5: the cost of a compiled lookup table with n input bits has x_count = 2*Z
\* (plus M when n = 0), cnot_count = M when n = 1 and 0 otherwise, and for n >= 2
\* toffoli_count = M*T(n), t_count = 7*M*T(n); the 2-input AND table costs one
\* Toffoli and 7 T gates.
C5_LookupCost ==
    (form.kind = "lut" /\ phase = "costed") =>
        LET n == form.n_input_bits
            M == CountM(form)
            Z == CountZ(form)
        IN  /\ cost.err = ""
            /\ cost.cost.x_count = 2 * Z + (IF n = 0 THEN M ELSE 0)
            /\ cost.cost.cnot_count = (IF n = 1 THEN M ELSE 0)
            /\ n >= 2 => /\ cost.cost.toffoli_count = M * C5_T(n)
                         /\ cost.cost.t_count = 7 * M * C5_T(n)
            /\ (n = 2 /\ form.n_output_bits = 1
                  /\ \A i \in 1..4 : form.table[i][2] = (IF form.table[i][1] = 3 THEN 1 ELSE 0))
               => (cost.cost.toffoli_count = 1 /\ cost.cost.t_count = 7)

\* a 3-input table with two minterms: 2 * T(3) = 6 Toffolis
C5_Witness ==
    /\ form.kind = "lut" /\ phase = "costed"
    /\ form.n_input_bits = 3
    /\ CountM(form) = 2
    /\ CountZ(form) = 3
    /\ cost.cost.toffoli_count = 6
    /\ cost.cost.x_count = 6

(***************************************************************************)
(* C6                                                                      *)
(***************************************************************************)
\* T of the claim
C6_T(k) == IF k <= 1 THEN 0 ELSE IF k = 2 THEN 1 ELSE 2 * k - 3

RECURSIVE MaxSeq(_)
MaxSeq(s) == IF s = <<>> THEN 0 ELSE Max(Head(s), MaxSeq(Tail(s)))

McxControls(os) ==
    LET mcx == SelectSeq(os, LAMBDA op : op.gate = "mcx")
    IN  [i \in 1..Len(mcx) |-> Len(mcx[i].controls)]

\* C6: estimate_cost() adds 1 to x_count per x, 1 to cnot_count per cx, and per
\* mcx with k controls T(k) to toffoli_count, 7*T(k) to t_count, max(1, 3*T(k))
\* to t_depth_estimate, and raises ancilla_peak_estimate to max(0, k-2); any
\* other gate kind makes it fail and return no cost.
C6_EstimateCostFold ==
    ret.err # "unset" =>
        LET ks == McxControls(ops) IN
        IF \E i \in 1..Len(ops) : ops[i].gate \notin {"x", "cx", "mcx"}
        THEN ret.err = "ValueError" /\ ret.cost = NoCost.cost
        ELSE /\ ret.err = ""
             /\ ret.cost.x_count = Cardinality({i \in 1..Len(ops) : ops[i].gate = "x"})
             /\ ret.cost.cnot_count = Cardinality({i \in 1..Len(ops) : ops[i].gate = "cx"})
             /\ ret.cost.toffoli_count = SumSeq([i \in 1..Len(ks) |-> C6_T(ks[i])])
             /\ ret.cost.t_count = SumSeq([i \in 1..Len(ks) |-> 7 * C6_T(ks[i])])
             /\ ret.cost.t_depth_estimate =
                   SumSeq([i \in 1..Len(ks) |-> Max(1, 3 * C6_T(ks[i]))])
             /\ ret.cost.ancilla_peak_estimate =
                   MaxSeq([i \in 1..Len(ks) |-> Max(0, ks[i] - 2)])

\* an mcx of 4 controls, then one of 3, then an x: peak 2, 5 + 3 Toffolis
C6_Witness ==
    /\ ret.err = ""
    /\ Len(ops) = 3
    /\ ops[1].gate = "mcx" /\ Len(ops[1].controls) = 4
    /\ ops[2].gate = "mcx" /\ Len(ops[2].controls) = 3
    /\ ops[3].gate = "x"
    /\ ret.cost.ancilla_peak_estimate = 2
    /\ ret.cost.toffoli_count = 8

(***************************************************************************)
(* C7, C8                                                                  *)
(***************************************************************************)
Abs(a) == IF a < 0 THEN -a ELSE a

\* the bounds of the representable range as scaled integers
FxMinInt == -Pow2(fx.total_bits - 1)

FxMaxInt == Pow2(fx.total_bits - 1) - 1

\* fx.value * 2^frac_bits = fx.value.num / FxUnit
FxUnit == fx.value.den \div Pow2(fx.frac_bits)

\* min_int/scale <= value <= max_int/scale
FxInRange ==
    /\ FxMinInt * FxUnit <= fx.value.num
    /\ fx.value.num <= FxMaxInt * FxUnit

\* |dec - value| as a multiple of 1 / (dec.den * value.den)
FxError == Abs(dec.val.num * fx.value.den - fx.value.num * dec.val.den)

\* C7: for every (total_bits, frac_bits) and every value inside the representable
\* range the encode succeeds and decode(encode(v)) differs from v by at most half
\* an LSB, 1/(2*2^frac_bits); an exact multiple of one LSB round-trips exactly.
C7_FixedRoundTrip ==
    /\ (enc.err # "unset" /\ FxInRange) => enc.err = ""
    /\ (dec.err = "" /\ FxInRange) =>
          /\ 2 * Pow2(fx.frac_bits) * FxError <= dec.val.den * fx.value.den
          /\ fx.value.num % FxUnit = 0 => FxError = 0

\* -3/8 at frac_bits = 1 is a tie between -1/2 and 0 and decodes to 0, half an
\* LSB away
C7_Witness ==
    /\ dec.err = "" /\ FxInRange
    /\ fx.total_bits = 3 /\ fx.frac_bits = 1
    /\ fx.value.num = -2 /\ fx.value.den = 8
    /\ dec.val.num = 0
    /\ 2 * Pow2(fx.frac_bits) * FxError = dec.val.den * fx.value.den

\* C8: every value outside [-2^(value_bits-1)/scale, (2^(value_bits-1)-1)/scale],
\* also one that exceeds a bound by less than half an LSB, makes the encode fail.
C8_OutOfRangeAlwaysFails ==
    (enc.err # "unset" /\ ~FxInRange) => enc.err = "ValueError"

(***************************************************************************)
(* C2, C9, C10                                                             *)
(***************************************************************************)
\* bits(n) = max(1, ceil(log2(n))): the least b >= 1 with 2^b >= n
WidthOf(n) == CHOOSE b \in 1..(n + 1) : Pow2(b) >= n /\ (b = 1 \/ Pow2(b - 1) < n)

\* the width-wide binary of v, most significant bit first
Binary(v, width) == [i \in 1..width |-> Bit(v, width - i)]

OracleDomain == (0..(OracleDim(oargs) - 1)) \X (0..(oargs.max_nnz - 1))

\* C2: for any n_rows, n_cols, max_nnz >= 1, powers of two or not,
\* compile_reversible_circuit() of an oracle built by from_function returns a
\* circuit with n_input_bits = bits(dim) + bits(max_nnz), n_output_bits =
\* bits(bound) that, on packed input index * 2^bits(max_nnz) + slot, leaves
\* lookup(index, slot) in the output register, for every (index, slot) of the
\* declared domain.
C2_AccessCircuitComputesLookup ==
    (/\ oret.call = "compile_reversible_circuit"
     /\ oargs.n_rows >= 1 /\ oargs.n_cols >= 1 /\ oargs.max_nnz >= 1) =>
        LET n == WidthOf(OracleDim(oargs)) + WidthOf(oargs.max_nnz)
            m == WidthOf(OracleBound(oargs))
        IN  /\ oret.err = ""
            /\ oret.circ.n_input_bits = n
            /\ oret.circ.n_output_bits = m
            /\ \A at \in OracleDomain :
                  LET x == at[1] * Pow2(WidthOf(oargs.max_nnz)) + at[2]
                      end == RunCircuit(oret.circ.operations, InitialWires(n, m, x))
                  IN  /\ Register(end, 0, n) = x
                      /\ Register(end, n, m) = DictGet(otable, at)

\* the target the generating function produced at the i-th call
Produced(i) == CallFn(oargs.fn, ocalls[i][1], ocalls[i][2])

InBound(v) == 0 <= v /\ v < OracleBound(oargs)

\* C9: from_function calls the generating function over index in [0, dim) and
\* slot in [0, max_nnz) in row-major order, and either returns an oracle whose
\* table has exactly one entry for every (index, slot), each within [0, bound),
\* or fails at the first produced target outside [0, bound), with no call on a
\* later pair and no oracle returned.
C9_FromFunctionEager ==
    ostatus \in {"building", "built", "failed"} =>
        /\ \A i \in 1..Len(ocalls) :
              /\ ocalls[i] = <<(i - 1) \div oargs.max_nnz, (i - 1) % oargs.max_nnz>>
              /\ ocalls[i] \in OracleDomain
        /\ \A i \in 1..(Len(ocalls) - 1) : InBound(Produced(i))
        /\ ostatus = "building" => \A i \in 1..Len(ocalls) : InBound(Produced(i))
        /\ ostatus = "built" =>
              /\ Len(ocalls) = OracleDim(oargs) * oargs.max_nnz
              /\ \A at \in OracleDomain :
                    Cardinality({i \in 1..Len(otable) : otable[i][1] = at}) = 1
              /\ \A i \in 1..Len(otable) :
                    /\ otable[i][1] \in OracleDomain
                    /\ InBound(otable[i][2])
                    /\ otable[i][2] = CallFn(oargs.fn, otable[i][1][1], otable[i][1][2])
        /\ ostatus = "failed" =>
              /\ ~InBound(Produced(Len(ocalls)))
              /\ oret = NoReturn

\* a 3 x 2 domain whose third call produced a target outside the bound
C9_Witness ==
    /\ ostatus = "failed"
    /\ OracleDim(oargs) = 3 /\ oargs.max_nnz = 2
    /\ ocalls = <<<<0, 0>>, <<0, 1>>, <<1, 0>>>>
    /\ Len(otable) = 2
    /\ Produced(3) = OracleBound(oargs)

\* C10: compile_truth_table() of an oracle built by from_function succeeds and
\* returns exactly dim * max_nnz entries: distinct (index, slot) pairs get
\* distinct keys, each key is the bits(dim)-wide binary of index followed by the
\* bits(max_nnz)-wide binary of slot, and its value is the bits(bound)-wide
\* binary of lookup(index, slot).
C10_TruthTableTotal ==
    oret.call = "compile_truth_table" =>
        LET KeyOf(at) == Binary(at[1], WidthOf(OracleDim(oargs)))
                         \o Binary(at[2], WidthOf(oargs.max_nnz))
        IN  /\ oret.err = ""
            /\ Len(oret.table) = OracleDim(oargs) * oargs.max_nnz
            /\ \A at1, at2 \in OracleDomain : at1 # at2 => KeyOf(at1) # KeyOf(at2)
            /\ \A at \in OracleDomain :
                  /\ Cardinality({i \in 1..Len(oret.table) : oret.table[i][1] = KeyOf(at)}) = 1
                  /\ DictGet(oret.table, KeyOf(at)) =
                        Binary(lookup(otable, at[1], at[2]).val, WidthOf(OracleBound(oargs)))

\* the oracle of test_row_col_oracles_compile_from_functions: 3 rows, 3 columns,
\* 2 slots, (row + slot) mod 3; six entries, row 2 slot 1 maps 101 to 00
C10_Witness ==
    /\ oret.call = "compile_truth_table" /\ oret.err = ""
    /\ oargs.kind = "row" /\ oargs.n_rows = 3 /\ oargs.n_cols = 3 /\ oargs.max_nnz = 2
    /\ oargs.fn = [a |-> 1, b |-> 1, c |-> 0, modulus |-> 3, shift |-> 0]
    /\ Len(oret.table) = 6
    /\ DictGet(oret.table, <<1, 0, 1>>) = <<0, 0>>

(***************************************************************************)
(* C11, C12                                                                *)
(***************************************************************************)
\* the calls of the log that returned
Returned(call) == {i \in 1..Len(blog) : blog[i].call = call /\ blog[i].err = ""}

\* C11: a record returned by query(request) has op
\* "sparse_block_encoding_query", the request's step, the row and the slot
\* read (as integers) from the request's parameters, col =
\* row_oracle.lookup(row, slot), and the theta, phase, value and
\* normalized_abs of amplitude_oracle.encode(row, col).
C11_QueryRecord ==
    \A i \in Returned("query") :
        LET rec == heap[blog[i].ref]
            params == blog[i].request.parameters
            amp == encode(bundle.bundle.amplitude_oracle, rec.row, rec.col)
        IN  /\ rec.op = "sparse_block_encoding_query"
            /\ rec.step = blog[i].request.step
            /\ rec.row = IntOf(DictGet(params, "row"))
            /\ rec.l_pos = IntOf(DictGet(params, "l_pos"))
            /\ DictHas(bundle.bundle.row_oracle.table, <<rec.row, rec.l_pos>>)
            /\ rec.col = DictGet(bundle.bundle.row_oracle.table, <<rec.row, rec.l_pos>>)
            /\ amp.err = ""
            /\ rec.theta = amp.enc.theta
            /\ rec.phase = amp.enc.phase
            /\ rec.value = amp.enc.value
            /\ rec.normalized_abs = amp.enc.normalized_abs

\* query has returned a record whose column differs from its slot, of a
\* negative entry
C11_Witness ==
    \E i \in Returned("query") :
        /\ heap[blog[i].ref].col # heap[blog[i].ref].l_pos
        /\ heap[blog[i].ref].phase = "pi"
        /\ heap[blog[i].ref].step = 1

\* C12: adjoint_query(request) fails exactly when query(request) fails;
\* when both return, the record of adjoint_query equals the record of query
\* in every field except op, which is the adjoint marker, and the op of a
\* record query returned earlier is still the query marker after the call.
C12_AdjointMirrorsQuery ==
    /\ \A i, j \in 1..Len(blog) :
          (/\ blog[i].call = "query" /\ blog[j].call = "adjoint_query"
           /\ blog[i].request = blog[j].request)
          => /\ blog[i].err = blog[j].err
             /\ blog[i].err = "" =>
                   /\ blog[i].ref # blog[j].ref
                   /\ heap[blog[j].ref].op = "sparse_block_encoding_query_dagger"
                   /\ heap[blog[j].ref] =
                         [heap[blog[i].ref] EXCEPT !.op = "sparse_block_encoding_query_dagger"]
    /\ \A i \in Returned("query") : heap[blog[i].ref].op = "sparse_block_encoding_query"

\* query and then adjoint_query have returned on one request
C12_Witness ==
    /\ Len(blog) = 2
    /\ blog[1].call = "query" /\ blog[1].err = ""
    /\ blog[2].call = "adjoint_query" /\ blog[2].err = ""

(***************************************************************************)
(* C13, C14                                                                *)
(***************************************************************************)
\* the integer a two's-complement bit string stands for
Signed(bits) ==
    SumSeq([i \in 1..Len(bits) |-> bits[i] * Pow2(Len(bits) - i)])
    - (IF bits[1] = 1 THEN Pow2(Len(bits)) ELSE 0)

\* C13: encode(row, col) fails with ValueError whenever alpha <= 0, also for
\* a (row, col) the entry table lacks; with alpha > 0 and (row, col) in the
\* entry table it returns value = the decoded entry, normalized_abs =
\* min(|value| / alpha, 1), which lies in [0, 1], phase = 0 for value >= 0 and
\* pi for value < 0, and theta = 2 asin(sqrt(t)) for t = normalized_abs, which
\* lies in [0, pi] because t lies in [0, 1].
C13_EncodeContract ==
    aret.call = "encode" =>
        LET amp == bundle.bundle.amplitude_oracle
            alpha == amp.alpha
            e == amp.entry_oracle
            at == <<aret.row, aret.col>>
            v == aret.enc.value
            na == aret.enc.normalized_abs
            t == aret.enc.theta.two_asin_sqrt
        IN  /\ alpha.num <= 0 => aret.err = "ValueError"
            /\ (alpha.num > 0 /\ DictHas(e.table, at)) =>
                  /\ aret.err = ""
                  /\ v.den = Pow2(e.frac_bits)
                  /\ v.num = Signed(DictGet(e.table, at))
                  /\ na.den > 0
                  /\ IF Abs(v.num) * alpha.den <= v.den * alpha.num
                     THEN na.num * (v.den * alpha.num) = Abs(v.num) * alpha.den * na.den
                     ELSE na.num = na.den
                  /\ 0 <= na.num /\ na.num <= na.den
                  /\ aret.enc.phase = (IF v.num >= 0 THEN "0" ELSE "pi")
                  /\ t = na
                  /\ 0 <= t.num /\ t.num <= t.den

\* encode has returned a negative entry whose magnitude is a proper fraction
\* of alpha
C13_Witness ==
    /\ aret.call = "encode" /\ aret.err = ""
    /\ aret.enc.phase = "pi"
    /\ 0 < aret.enc.normalized_abs.num
    /\ aret.enc.normalized_abs.num < aret.enc.normalized_abs.den

\* C14: the amplitude oracle of every bundle from_functions has returned, and
\* of every SparseMatrixBlockEncoding built on one, has alpha > 0.
C14_AlphaPositiveAtConstruction ==
    /\ bundle.err = "" => bundle.bundle.amplitude_oracle.alpha.num > 0
    /\ be # NoBlockEncoding => be.bundle.amplitude_oracle.alpha.num > 0

(***************************************************************************)
(* C15, C16, C17                                                           *)
(***************************************************************************)
Compiled == phase = "compiled"

Supported == form.kind \in {"lut", "affine", "callable"}

MethodOf(kind) == IF kind = "affine" THEN "affine_xor" ELSE "sum_of_minterms"

\* C15: the circuit compile_function_form returns for a lookup-table, affine
\* or callable form has metadata.source = the name of the form passed in and
\* metadata.method = "affine_xor" for an affine form, "sum_of_minterms"
\* otherwise; a value of another kind fails with TypeError.
C15_SourceIsFormName ==
    /\ (Compiled /\ Supported) =>
          /\ circ.metadata.source = form.name
          /\ circ.metadata.method = MethodOf(form.kind)
    /\ (phase \in {"compiled", "failed"} /\ ~Supported) =>
          phase = "failed" /\ raised = "TypeError"

\* C15, amended: the source is the name of the form passed in for a
\* lookup-table and an affine form, and that name followed by "_enumerated",
\* the name of the enumerated table, for a callable form.
C15_SourceIsCompiledFormName ==
    /\ (Compiled /\ Supported) =>
          /\ circ.metadata.source =
                (IF form.kind = "callable" THEN form.name \o <<"_enumerated">>
                 ELSE form.name)
          /\ circ.metadata.method = MethodOf(form.kind)
    /\ (phase \in {"compiled", "failed"} /\ ~Supported) =>
          phase = "failed" /\ raised = "TypeError"

\* a callable form has been compiled to a circuit that has operations
C15_Witness == Compiled /\ form.kind = "callable" /\ circ.operations # <<>>

\* the inputs on which the callable's output is outside [0, 2^n_output_bits)
BadInputs ==
    {x \in 0..(Pow2(form.n_input_bits) - 1) :
        form.fn[x + 1].val < 0 \/ form.fn[x + 1].val >= Pow2(form.n_output_bits)}

\* the table is a total map on [0, 2^n) into [0, 2^m)
WellFormed(f) ==
    /\ Len(f.table) = Pow2(f.n_input_bits)
    /\ DictKeys(f.table) = 0..(Pow2(f.n_input_bits) - 1)
    /\ \A i \in 1..Len(f.table) : f.table[i][2] \in 0..(Pow2(f.n_output_bits) - 1)

\* C16: to_lookup_table(config) fails with ValueError without calling fn
\* when the configuration forbids enumeration or n_input_bits exceeds its
\* limit; otherwise it calls fn on 0, 1, ... in order, and either fails with
\* ValueError at the first input whose output is out of range, having called
\* fn on no later input, or has called fn on the whole domain and returns a
\* well-formed table of the same widths with table[x] = fn(x).
C16_ToLookupTable ==
    phase = "lowered" =>
        IF \/ ~config.allow_callable_enumeration
           \/ form.n_input_bits > config.max_truth_table_input_bits
        THEN lowered.err = "ValueError" /\ lowered.calls = <<>>
        ELSE IF BadInputs # {}
        THEN LET first == CHOOSE x \in BadInputs : \A y \in BadInputs : x <= y
             IN  /\ lowered.err = "ValueError"
                 /\ lowered.calls = [i \in 1..(first + 1) |-> i - 1]
        ELSE /\ lowered.err = ""
             /\ lowered.calls = [i \in 1..Pow2(form.n_input_bits) |-> i - 1]
             /\ lowered.lut.kind = "lut"
             /\ lowered.lut.n_input_bits = form.n_input_bits
             /\ lowered.lut.n_output_bits = form.n_output_bits
             /\ WellFormed(lowered.lut)
             /\ LookupTableForm_validate(lowered.lut)
             /\ \A x \in 0..(Pow2(form.n_input_bits) - 1) :
                   DictGet(lowered.lut.table, x) = form.fn[x + 1].val

\* to_lookup_table has failed at an input after the first and before the last
C16_Witness ==
    /\ phase = "lowered"
    /\ lowered.err = "ValueError"
    /\ Len(lowered.calls) > 1
    /\ Len(lowered.calls) < Pow2(form.n_input_bits)

\* C17: compile_lookup_table returns a circuit exactly when the table is a
\* total map on [0, 2^n_input_bits) with every value in
\* [0, 2^n_output_bits), which is when validate() returns; otherwise it
\* fails with ValueError and there is no circuit.
C17_ValidateExact ==
    (form.kind = "lut" /\ phase \in {"compiled", "failed"}) =>
        /\ phase = "compiled" <=> WellFormed(form)
        /\ LookupTableForm_validate(form) <=> WellFormed(form)
        /\ phase = "failed" => raised = "ValueError" /\ circ = NoCircuit

\* a table with the right number of entries, one of them out of range, has
\* been refused
C17_Witness ==
    /\ form.kind = "lut" /\ phase = "failed"
    /\ form.n_input_bits >= 1
    /\ Len(form.table) = Pow2(form.n_input_bits)

(***************************************************************************)
(* C18                                                                     *)
(***************************************************************************)
\* round(value * 2^frac_bits): the nearest integer, the even one of two
\* equally near
Nearest ==
    LET n == fx.value.num * Pow2(fx.frac_bits)
        d == fx.value.den
    IN  CHOOSE r \in (n \div d)..((n \div d) + 1) :
            \/ 2 * Abs(r * d - n) < d
            \/ 2 * Abs(r * d - n) = d /\ r % 2 = 0

\* C18: a bit string a fixed-point encode returns has total_bits characters
\* and is, most significant bit first, round(value * 2^frac_bits) modulo
\* 2^total_bits; its first bit is 1 exactly when that integer is negative;
\* and it decodes to that integer over 2^frac_bits.
C18_TwosComplement ==
    enc.err = "" =>
        /\ Len(enc.bits) = fx.total_bits
        /\ \A i \in 1..Len(enc.bits) :
              enc.bits[i] = Bit(Nearest % Pow2(fx.total_bits), fx.total_bits - i)
        /\ enc.bits[1] = 1 <=> Nearest < 0
        /\ dec.err = "" =>
              dec.val.num = Nearest /\ dec.val.den = Pow2(fx.frac_bits)

\* a negative value that is not a multiple of the LSB has been encoded into
\* at least two bits and decoded
C18_Witness ==
    /\ enc.err = "" /\ dec.err = ""
    /\ fx.total_bits >= 2
    /\ dec.val.num < 0
    /\ dec.val.num * fx.value.den # fx.value.num * dec.val.den

(***************************************************************************)
(* C19                                                                     *)
(***************************************************************************)
\* the estimate of operations i..j of the hand-built circuit
Part(i, j) == estimate_cost(SubSeq(ops, i, j))

\* C19: for every way of cutting the operations into three lists with
\* estimates A, B, C: A + B has the sums of the five counters and the larger
\* ancilla peak; A + B = B + A; (A + B) + C = A + (B + C); GateCost() is a
\* left and right identity; the estimate of the whole list is raised exactly
\* when the estimate of a part is, and otherwise equals the sum of the
\* estimates of the parts, for two parts and for three.
C19_AddMonoid ==
    ret.err # "unset" =>
        \A i \in 0..Len(ops) : \A j \in i..Len(ops) :
            LET a == Part(1, i)
                b == Part(i + 1, j)
                c == Part(j + 1, Len(ops))
                zero == GateCost(0, 0, 0, 0, 0, 0)
            IN  /\ ret.err = "" <=> (a.err = "" /\ b.err = "" /\ c.err = "")
                /\ ret.err = "" =>
                      LET A == a.cost
                          B == b.cost
                          C == c.cost
                          AB == GateCost_add(A, B)
                      IN  /\ AB.x_count = A.x_count + B.x_count
                          /\ AB.cnot_count = A.cnot_count + B.cnot_count
                          /\ AB.toffoli_count = A.toffoli_count + B.toffoli_count
                          /\ AB.t_count = A.t_count + B.t_count
                          /\ AB.t_depth_estimate = A.t_depth_estimate + B.t_depth_estimate
                          /\ AB.ancilla_peak_estimate =
                                (IF A.ancilla_peak_estimate >= B.ancilla_peak_estimate
                                 THEN A.ancilla_peak_estimate
                                 ELSE B.ancilla_peak_estimate)
                          /\ AB = GateCost_add(B, A)
                          /\ GateCost_add(AB, C) = GateCost_add(A, GateCost_add(B, C))
                          /\ GateCost_add(A, zero) = A
                          /\ GateCost_add(zero, A) = A
                          /\ j = Len(ops) => ret.cost = AB
                          /\ ret.cost = GateCost_add(AB, C)

\* a circuit of three or more operations with an x, a cx and an mcx that
\* needs ancillas has been estimated
C19_Witness ==
    /\ ret.err = ""
    /\ Len(ops) >= 3
    /\ ret.cost.x_count > 0
    /\ ret.cost.cnot_count > 0
    /\ ret.cost.ancilla_peak_estimate > 0

(***************************************************************************)
(* C20                                                                     *)
(***************************************************************************)
\* C20: a circuit compile_function_form returns has the widths of its form
\* and n_qubits = n_input_bits + n_output_bits; every control of a cx or mcx
\* is an input wire, with control value 1, and the target of a cx or mcx is
\* an output wire; no target is among the gate's controls; an x acts on a
\* wire of the circuit.
C20_Layout ==
    Compiled =>
        LET n == form.n_input_bits
            m == form.n_output_bits
        IN  /\ circ.n_input_bits = n /\ circ.n_output_bits = m
            /\ n_qubits(circ) = n + m
            /\ \A k \in 1..Len(circ.operations) :
                  LET op == circ.operations[k] IN
                  /\ op.gate \in {"x", "cx", "mcx"}
                  /\ op.gate \in {"cx", "mcx"} =>
                        /\ Len(op.control_values) = Len(op.controls)
                        /\ \A i \in 1..Len(op.controls) :
                              /\ op.controls[i] \in 0..(n - 1)
                              /\ op.control_values[i] = 1
                        /\ op.target \in n..(n + m - 1)
                  /\ \A i \in 1..Len(op.controls) : op.controls[i] # op.target
                  /\ op.gate = "x" => op.target \in 0..(n + m - 1)

\* a circuit with an mcx and with an x on an input wire has been compiled
C20_Witness ==
    /\ Compiled
    /\ \E k \in 1..Len(circ.operations) : circ.operations[k].gate = "mcx"
    /\ \E k \in 1..Len(circ.operations) :
          /\ circ.operations[k].gate = "x"
          /\ circ.operations[k].target < circ.n_input_bits


(***************************************************************************)
(* C21.  For every domain size n >= 1, _bits_for_range(n) is               *)
(* max(1, ceil(log2(n))); every index i with 0 <= i < n is below           *)
(* 2^bits(n), so _encode_uint(i, bits(n)) does not fail, returns exactly   *)
(* bits(n) characters, and _decode_uint maps them back to i.               *)
(***************************************************************************)
\* max(1, ceil(log2(2^top + low))) in exact arithmetic
ExactBits(n) == IF n.low = 0 THEN Max(1, n.top) ELSE n.top + 1

InDomain == BigLess(uargs.index, uargs.size)

C21_IndexRoundTrip ==
    uargs.size # BigZero =>
        LET bits == Big_bits_for_range(uargs.size)
        IN  /\ bits = ExactBits(uargs.size)
            /\ InDomain =>
                  /\ uargs.index.top < bits
                  /\ uenc # NoUint => uenc.err = "" /\ Len(uenc.bits) = bits
                  /\ udec.err = "" => udec.val = uargs.index

\* the same below the first size whose log2 rounds to a whole number
C21_HoldsBelow ==
    (uargs.size # BigZero /\ BigLess(uargs.size, Big(49, 1))) => C21_IndexRoundTrip


(***************************************************************************)
(* C10 on bounds beyond 2^49.  compile_truth_table of the oracle built by  *)
(* from_function(n_rows=1, n_cols=size, max_row_nnz=1, fn) with            *)
(* fn(0, 0) = index has one entry, whose value is                          *)
(* _encode_uint(index, _bits_for_range(size)): the call succeeds and the   *)
(* value is bits(size) wide.                                               *)
(***************************************************************************)
C10_TruthTableTotalWide ==
    (InDomain /\ uenc # NoUint) =>
        /\ uenc.err = ""
        /\ Len(uenc.bits) = ExactBits(uargs.size)

(***************************************************************************)
(* C22.  After any sequence of QuerySchedule.append calls, len(schedule)   *)
(* is the number of appends and iteration yields the calls in append       *)
(* order; GeneralizedQueryAlgorithm.run(schedule) returns one operation    *)
(* per scheduled call, in that order, the i-th being the result of the     *)
(* i-th call's encoding.query(request), also when the calls use encodings  *)
(* of different classes.  A query that raises ends run with its exception. *)
(***************************************************************************)
\* what the i-th appended call's own encoding answers to its request
Answer(i) ==
    LET call == appended[i] IN
    IF "kind" \in DOMAIN call.encoding
    THEN _Encoding_query(call.encoding, call.request)
    ELSE LET r == query(call.encoding, call.request, <<>>)
         IN  [err |-> r.err, op |-> IF r.err = "" THEN r.heap[r.ref] ELSE <<>>]

Heterogeneous ==
    \E i, j \in 1..Len(appended) :
        ("kind" \in DOMAIN appended[i].encoding) /\ ~("kind" \in DOMAIN appended[j].encoding)

C22_ScheduleOrder ==
    /\ QuerySchedule_len(sched) = Len(appended)
    /\ QuerySchedule_iter(sched) = appended
    /\ srun # NoRun =>
          IF \A i \in 1..Len(appended) : Answer(i).err = ""
          THEN /\ srun.err = ""
               /\ Len(srun.operations) = Len(appended)
               /\ \A i \in 1..Len(appended) : srun.operations[i] = Answer(i).op
          ELSE LET first == CHOOSE i \in 1..Len(appended) :
                                /\ Answer(i).err # ""
                                /\ \A j \in 1..(i - 1) : Answer(j).err = ""
               IN  srun.err = Answer(first).err

C22_Witness ==
    /\ Len(appended) = MaxCalls /\ Heterogeneous
    /\ srun.err = "" /\ Len(srun.operations) = MaxCalls
    /\ srun.operations[1] # srun.operations[2]
    /\ appended[1].encoding # appended[3].encoding


(***************************************************************************)
(* C23.  In a circuit produced by compile_lookup_table each minterm        *)
(* contributes a contiguous group: X on every input wire that is 0 in the  *)
(* minterm, then exactly one controlling gate on the target, then X on     *)
(* the same wires in reverse order.  When the circuit is executed on an    *)
(* input x, the input register equals x at the start and at the end of     *)
(* every group, and the controlling gate of the group of minterm m fires   *)
(* exactly when x = m.                                                     *)
(***************************************************************************)
\* the minterms of the table in emission order: output bit by output bit,
\* and within one output bit in the order of the table's items
MintermGroups(f) ==
    Flatten([j \in 1..f.n_output_bits |->
                LET hit == SelectSeq(f.table, LAMBDA kv : Bit(kv[2], j - 1) = 1)
                IN  [i \in 1..Len(hit) |->
                        [m |-> hit[i][1], target |-> f.n_input_bits + j - 1]]])

\* the input wires that are 0 in minterm m, ascending
ZeroWires(m, n) == SelectSeq(Range(n), LAMBDA w : Bit(m, w) = 0)

GroupStart(groups, k, n) ==
    SumSeq([i \in 1..(k - 1) |-> 2 * Len(ZeroWires(groups[i].m, n)) + 1])

IsFlip(op, wire) == op.gate = "x" /\ op.controls = <<>> /\ op.target = wire

\* a gate on target that every input wire controls positively
IsControllingGate(op, n, target) ==
    /\ op.target = target
    /\ op.gate = (IF n = 0 THEN "x" ELSE IF n = 1 THEN "cx" ELSE "mcx")
    /\ {op.controls[i] : i \in 1..Len(op.controls)} = 0..(n - 1)
    /\ Len(op.controls) = n
    /\ \A i \in 1..Len(op.control_values) : op.control_values[i] = 1

LutCompiled == form.kind = "lut" /\ phase \in {"compiled", "costed", "running"}

\* the operation list is the groups of the table's minterms, one after another
C23_GroupStructure ==
    LET n == form.n_input_bits
        groups == MintermGroups(form)
        operations == circ.operations
    IN  /\ Len(operations) = GroupStart(groups, Len(groups) + 1, n)
        /\ \A k \in 1..Len(groups) :
              LET start == GroupStart(groups, k, n)
                  zero == ZeroWires(groups[k].m, n)
                  z == Len(zero)
              IN  /\ \A i \in 1..z :
                        /\ IsFlip(operations[start + i], zero[i])
                        /\ IsFlip(operations[start + z + 1 + i], zero[z + 1 - i])
                  /\ IsControllingGate(operations[start + z + 1], n, groups[k].target)

\* at the boundaries of the groups the input register holds xin, and the
\* gate of a group changes the wires exactly on the group's minterm
C23_GroupExecution ==
    LET n == form.n_input_bits
        groups == MintermGroups(form)
    IN  \A k \in 1..Len(groups) :
            LET start == GroupStart(groups, k, n)
                z == Len(ZeroWires(groups[k].m, n))
            IN  /\ pc \in {start, start + 2 * z + 1} => InputRegister = xin
                /\ pc = start + z =>
                      ((ApplyOp(circ.operations[pc + 1], wires) # wires)
                          <=> xin = groups[k].m)

C23_MintermGroups ==
    /\ (form.kind = "lut" /\ phase = "compiled") => C23_GroupStructure
    /\ (form.kind = "lut" /\ phase = "running") => C23_GroupExecution

\* the gate of a later group is about to fire, after an earlier group has
\* flipped two wires and restored them
C23_Witness ==
    /\ LutCompiled /\ phase = "running"
    /\ LET n == form.n_input_bits
           groups == MintermGroups(form)
       IN  \E k \in 2..Len(groups) :
              /\ Len(ZeroWires(groups[1].m, n)) >= 2
              /\ pc = GroupStart(groups, k, n) + Len(ZeroWires(groups[k].m, n))
              /\ xin = groups[k].m
              /\ ApplyOp(circ.operations[pc + 1], wires) # wires


(***************************************************************************)
(* C24.  Once a bundle and a block encoding on it are built, no call of    *)
(* lookup, lookup_bits, lookup_value, compile_truth_table,                 *)
(* compile_reversible_circuit, encode, query or adjoint_query changes an   *)
(* oracle's table or declared parameters, and the same call with the same  *)
(* arguments returns the same result again.                                *)
(***************************************************************************)
Built == bundle.err = ""

\* the bundle is what from_functions built, and the block encoding holds it
C24_OraclesUnchanged ==
    /\ Built => bundle = from_functions(bargs)
    /\ be # NoBlockEncoding => be.bundle = from_functions(bargs).bundle

C24_SameCallSameResult ==
    /\ \A i, j \in 1..Len(dlog) : dlog[i] = dlog[j]
    /\ \A i, j \in 1..Len(blog) :
          (blog[i].call = blog[j].call /\ blog[i].request = blog[j].request) =>
              /\ blog[i].err = blog[j].err
              /\ blog[i].err = "" => heap[blog[i].ref] = heap[blog[j].ref]

C24_CallsAreReadOnly == C24_OraclesUnchanged /\ C24_SameCallSameResult

C24_Witness ==
    /\ Len(dlog) = 2 /\ dlog[1].method = "entry.lookup_value" /\ dlog[1].err = ""
    /\ Len(blog) = 2 /\ blog[1].call = "adjoint_query" /\ blog[2].call = "adjoint_query"
    /\ blog[1].err = "" /\ blog[1].ref # blog[2].ref


(***************************************************************************)
(* C25.  For every valid AffineXorForm the circuit of the affine path,     *)
(* compile_affine_xor(form), and the circuit of the lookup-table path,     *)
(* compile_lookup_table(form.to_lookup_table()), implement the same map:   *)
(* on every input x both leave the input register at x and put             *)
(* form.evaluate(x) in the output register; form.to_lookup_table() passes  *)
(* validate().                                                             *)
(***************************************************************************)
ValidAffine == form.kind = "affine" /\ AffineXorForm_validate(form)

\* the wires after the lookup-table path's circuit has run on |xin>|0>
LutPathWires ==
    RunCircuit(compile_lookup_table(AffineXorForm_to_lookup_table(form)).circ.operations,
               InitialWires(form.n_input_bits, form.n_output_bits, xin))

C25_PathsAgree ==
    ValidAffine =>
        /\ phase = "compiled" =>
              /\ LookupTableForm_validate(AffineXorForm_to_lookup_table(form))
              /\ compile_lookup_table(AffineXorForm_to_lookup_table(form)).err = ""
        /\ Executed =>
              /\ circ.metadata.method = "affine_xor"
              /\ InputRegister = xin
              /\ OutputRegister = AffineXorForm_evaluate(form, xin).val
              /\ Register(LutPathWires, 0, form.n_input_bits) = xin
              /\ Register(LutPathWires, form.n_input_bits, form.n_output_bits)
                    = AffineXorForm_evaluate(form, xin).val
              /\ LutPathWires = wires

\* both circuits have run on an input that the map sends to a non-zero
\* value; the offset contributes to it, and the two circuits differ
C25_Witness ==
    /\ ValidAffine /\ Executed
    /\ OutputRegister # 0 /\ xin # 0
    /\ \E j \in 1..form.n_output_bits : form.offset_bits[j] = 1
    /\ compile_lookup_table(AffineXorForm_to_lookup_table(form)).circ.operations
          # circ.operations
    /\ LutPathWires = wires


(***************************************************************************)
(* C26.  For a bundle returned by from_functions with alpha > 0, query     *)
(* and adjoint_query do not fail on a request whose row is in              *)
(* [0, n_rows) and whose slot is in [0, max_row_nnz): the resolved col     *)
(* lies in [0, n_cols), so (row, col) is a key of the entry oracle's       *)
(* table, which has exactly one entry for every (row, col) of              *)
(* [0, n_rows) x [0, n_cols).                                              *)
(***************************************************************************)
\* 0 <= v < bound for a float v
Within(v, bound) == v.num >= 0 /\ v.num < bound * v.den

InDomainRequest(request) ==
    /\ DictHas(request.parameters, "row") /\ DictHas(request.parameters, "l_pos")
    /\ Within(DictGet(request.parameters, "row"), bargs.n_rows)
    /\ Within(DictGet(request.parameters, "l_pos"), bargs.max_row_nnz)

AlphaPositive == bundle.err = "" /\ bargs.alpha.num > 0

C26_InDomainQueriesSucceed ==
    AlphaPositive =>
        LET rows == bundle.bundle.row_oracle
            entries == bundle.bundle.amplitude_oracle.entry_oracle
        IN  /\ DictKeys(entries.table) = (0..(bargs.n_rows - 1)) \X (0..(bargs.n_cols - 1))
            /\ Len(entries.table) = bargs.n_rows * bargs.n_cols
            /\ \A r \in 0..(bargs.n_rows - 1), l \in 0..(bargs.max_row_nnz - 1) :
                  /\ lookup(rows.table, r, l).err = ""
                  /\ lookup(rows.table, r, l).val \in 0..(bargs.n_cols - 1)
                  /\ DictHas(entries.table, <<r, lookup(rows.table, r, l).val>>)
            /\ \A i \in 1..Len(blog) :
                  InDomainRequest(blog[i].request) =>
                      /\ blog[i].err = ""
                      /\ heap[blog[i].ref].col \in 0..(bargs.n_cols - 1)
                      /\ DictHas(entries.table, <<heap[blog[i].ref].row, heap[blog[i].ref].col>>)

\* a query and an adjoint query on the last row, which resolves to another column
C26_Witness ==
    /\ AlphaPositive /\ Len(blog) = 2
    /\ blog[1].call = "query" /\ blog[2].call = "adjoint_query"
    /\ InDomainRequest(blog[1].request) /\ InDomainRequest(blog[2].request)
    /\ heap[blog[2].ref].row = bargs.n_rows - 1 /\ bargs.n_rows > 1
    /\ heap[blog[2].ref].col # heap[blog[2].ref].row

====
